---------------------------- MODULE Spec2Model ----------------------------
(***************************************************************************)
(* Verification state machine and admission-decision engine of the         *)
(* Murkaverse gatekeeper bot (src/src/db.py, src/src/handlers/*.py).       *)
(*                                                                         *)
(* The SQLite tables `users` and `settings` are the variables users and    *)
(* settings; the module globals _active_challenges and _last_callback of   *)
(* handlers/lobby.py are the variables active_challenges and               *)
(* last_callback.  The variable clock is time.time() in milliseconds and   *)
(* now is int(time.time()), the whole seconds the database stores.  Every  *)
(* handler is one action where events are handled one at a time (Spec,     *)
(* SpecAdmission).  aiogram runs every update in an asyncio task of its    *)
(* own, so a handler can be suspended at each await while others run: the  *)
(* variable tasks holds the handlers suspended at an await, and the        *)
(* specifications SpecJoinConcurrent and SpecAnswerConcurrent run a        *)
(* handler one segment (the code from one await to the next) at a time.    *)
(* The coroutine main() of src/src/main.py, with its retry counter and its *)
(* shutdown event, is the task MainTask of tasks (SpecSupervision).        *)
(*                                                                         *)
(* Database.get_language / set_language are called by the handlers but are *)
(* not part of src/src/db.py; the language tag only selects the text shown *)
(* to the user and is not modelled.                                        *)
(***************************************************************************)
EXTENDS Integers, FiniteSets, Sequences, TLC

VARIABLES users, settings, active_challenges, last_callback, config, clock, out,
          tasks

vars == <<users, settings, active_challenges, last_callback, config, clock, out,
          tasks>>

\* db.py:96  now = int(time.time())
now == clock \div 1000

-----------------------------------------------------------------------------
(* Bounds of the model *)

\* first instant of the run, in seconds since the epoch
StartTime == 1
\* the run covers the seconds StartTime .. StartTime + Horizon
Horizon == 602
\* the clock advances to the start of a later second, by one of these numbers of seconds
Jumps == {300, 301}
\* or within the second, by this number of milliseconds
SubStep == 300

Users == {1}

-----------------------------------------------------------------------------
(* Program constants *)

\* db.py:128  "if window_start and (now - window_start) > 600"
ATTEMPT_WINDOW == 600
\* lobby.py:20  CALLBACK_COOLDOWN = 0.3 seconds, in milliseconds
CALLBACK_COOLDOWN == 300
\* config.py:73-75  defaults of VERIFY_TTL_SECONDS, COOLDOWN_SECONDS, MAX_ATTEMPTS
verify_ttl_seconds == 300
cooldown_seconds == 600
max_attempts == 3

\* texts.py:130-136  the correct emoji of each CAPTCHA_CHALLENGES entry
\* (two of the five: the challenges differ only in the emoji)
CAPTCHA_CHALLENGES == {"moon", "sparkle"}
\* texts.py:139  CAPTCHA_DECOYS (one representative: no decoy is ever correct)
CAPTCHA_DECOYS == {"blossom"}

\* db.py:241  "cutoff = int(time.time()) - 86400"
STATS_WINDOW == 86400

\* db.py:41-46  SQL NULL / Python None in an optional INTEGER column
Null == -1

-----------------------------------------------------------------------------
(* Database: the users table (db.py) *)

\* db.py:39-47  a row created by INSERT with only user_id given
NewRow ==
    [agreed_at |-> Null, verified_at |-> Null, attempts_count |-> 0,
     attempts_window_start |-> Null, cooldown_until |-> Null,
     last_join_request_at |-> Null]

\* Python truthiness of an optional integer: None and 0 are falsy
Truthy(x) == x # Null /\ x # 0

\* db.py:64-80  whether SELECT finds a row of user_id (get_user is not None)
has_user(us, user_id) == user_id \in DOMAIN us

\* db.py:64-80  the row of user_id
get_user(us, user_id) == us[user_id]

\* a table with the row of user_id replaced by row
PutRow(us, user_id, row) ==
    [k \in DOMAIN us \cup {user_id} |-> IF k = user_id THEN row ELSE us[k]]

\* db.py:82-92  INSERT OR IGNORE
ensure_user(us, user_id) ==
    IF has_user(us, user_id) THEN us ELSE PutRow(us, user_id, NewRow)

\* set_agreed as INSERT OR IGNORE: the agreed_at of an existing row is kept
set_agreed_insert_only(us, user_id, t) ==
    IF has_user(us, user_id)
    THEN us
    ELSE PutRow(us, user_id, [NewRow EXCEPT !.agreed_at = t])

\* set_agreed as INSERT OR REPLACE: the row is written anew with agreed_at only
set_agreed_replace(us, user_id, t) ==
    PutRow(us, user_id, [NewRow EXCEPT !.agreed_at = t])

\* db.py:94-102  upsert of agreed_at
set_agreed(us, user_id, t) ==
    IF has_user(us, user_id)
    THEN [us EXCEPT ![user_id].agreed_at = t]
    ELSE PutRow(us, user_id, [NewRow EXCEPT !.agreed_at = t])

\* set_verified that sets verified_at only
set_verified_keeps_attempts(us, user_id, t) ==
    IF ~has_user(us, user_id)
    THEN us
    ELSE [us EXCEPT ![user_id].verified_at = t]

\* db.py:104-116  UPDATE ... WHERE user_id = ?  (no row: nothing is updated)
set_verified(us, user_id, t) ==
    IF ~has_user(us, user_id)
    THEN us
    ELSE [us EXCEPT ![user_id].verified_at = t,
                    ![user_id].attempts_count = 0,
                    ![user_id].attempts_window_start = Null,
                    ![user_id].cooldown_until = Null]

\* the window check with ">=" for ">": a window exactly 600 s old is stale
KeptWindowStart_inclusive(window_start, t) ==
    IF Truthy(window_start) /\ (t - window_start) >= ATTEMPT_WINDOW
    THEN Null
    ELSE window_start

\* db.py:126-129  the window start kept by a wrong answer at t (None: stale or none)
KeptWindowStart(window_start, t) ==
    IF Truthy(window_start) /\ (t - window_start) > ATTEMPT_WINDOW
    THEN Null
    ELSE window_start

\* increment_attempts with "count > max_attempts" for "count >= max_attempts"
increment_attempts_late(us, user_id, t, maxAttempts, cooldownSeconds) ==
    LET us1 == IF user_id \in DOMAIN us
               THEN us
               ELSE [k \in DOMAIN us \cup {user_id} |->
                        IF k = user_id
                        THEN [agreed_at |-> Null, verified_at |-> Null,
                              attempts_count |-> 0, attempts_window_start |-> Null,
                              cooldown_until |-> Null, last_join_request_at |-> Null]
                        ELSE us[k]]
        user == us1[user_id]
        kept == KeptWindowStart(user.attempts_window_start, t)
        window_start == IF kept = Null THEN t ELSE kept
        count == IF kept = Null THEN 1 ELSE user.attempts_count + 1
        cooldown_until == IF count > maxAttempts THEN t + cooldownSeconds ELSE Null
    IN  [users |-> [us1 EXCEPT ![user_id].attempts_count = count,
                               ![user_id].attempts_window_start = window_start,
                               ![user_id].cooldown_until = cooldown_until],
         count |-> count,
         cooldown_until |-> cooldown_until]

\* db.py:118-151  returns the new table, the new count and the cooldown (or None)
increment_attempts(us, user_id, t, maxAttempts, cooldownSeconds) ==
    LET us1 == ensure_user(us, user_id)
        user == get_user(us1, user_id)
        kept == KeptWindowStart(user.attempts_window_start, t)
        window_start == IF kept = Null THEN t ELSE kept
        count == IF kept = Null THEN 1 ELSE user.attempts_count + 1
        cooldown_until == IF count >= maxAttempts THEN t + cooldownSeconds ELSE Null
    IN  [users |-> [us1 EXCEPT ![user_id].attempts_count = count,
                               ![user_id].attempts_window_start = window_start,
                               ![user_id].cooldown_until = cooldown_until],
         count |-> count,
         cooldown_until |-> cooldown_until]

\* reset_attempts that leaves cooldown_until in place
reset_attempts_keeps_cooldown(us, user_id) ==
    IF ~has_user(us, user_id)
    THEN us
    ELSE [us EXCEPT ![user_id].attempts_count = 0,
                    ![user_id].attempts_window_start = Null]

\* reset_attempts that leaves the window start in place
reset_attempts_keeps_window(us, user_id) ==
    IF ~has_user(us, user_id)
    THEN us
    ELSE [us EXCEPT ![user_id].attempts_count = 0,
                    ![user_id].cooldown_until = Null]

\* db.py:153-163
reset_attempts(us, user_id) ==
    IF ~has_user(us, user_id)
    THEN us
    ELSE [us EXCEPT ![user_id].attempts_count = 0,
                    ![user_id].attempts_window_start = Null,
                    ![user_id].cooldown_until = Null]

\* set_join_request_time as a plain UPDATE: no row is created
set_join_request_time_update_only(us, user_id, t) ==
    IF has_user(us, user_id)
    THEN [us EXCEPT ![user_id].last_join_request_at = t]
    ELSE us

\* db.py:165-173  upsert of last_join_request_at
set_join_request_time(us, user_id, t) ==
    IF has_user(us, user_id)
    THEN [us EXCEPT ![user_id].last_join_request_at = t]
    ELSE PutRow(us, user_id, [NewRow EXCEPT !.last_join_request_at = t])

\* is_verified_recently with "<" for "<="
is_verified_recently_exclusive(us, user_id, t, ttl_seconds) ==
    /\ user_id \in DOMAIN us
    /\ us[user_id].verified_at # Null
    /\ us[user_id].verified_at # 0
    /\ (t - us[user_id].verified_at) < ttl_seconds

\* db.py:175-182
is_verified_recently(us, user_id, t, ttl_seconds) ==
    LET user == get_user(us, user_id)
    IN  IF ~has_user(us, user_id) \/ ~Truthy(user.verified_at)
        THEN FALSE
        ELSE (t - user.verified_at) <= ttl_seconds

\* is_in_cooldown with ">" for ">=": at now = cooldown_until still in cooldown
is_in_cooldown_late(us, user_id, t) ==
    IF ~(user_id \in DOMAIN us) \/ us[user_id].cooldown_until = Null
    THEN [in_cooldown |-> FALSE, remaining |-> 0, users |-> us, expired |-> FALSE]
    ELSE IF t > us[user_id].cooldown_until
    THEN [in_cooldown |-> FALSE, remaining |-> 0,
          users |-> reset_attempts(us, user_id), expired |-> TRUE]
    ELSE [in_cooldown |-> TRUE, remaining |-> us[user_id].cooldown_until - t,
          users |-> us, expired |-> FALSE]

\* is_in_cooldown that resets the attempts before it compares the times
is_in_cooldown_eager(us, user_id, t) ==
    IF ~(user_id \in DOMAIN us) \/ us[user_id].cooldown_until = Null
    THEN [in_cooldown |-> FALSE, remaining |-> 0, users |-> us, expired |-> FALSE]
    ELSE IF t >= us[user_id].cooldown_until
    THEN [in_cooldown |-> FALSE, remaining |-> 0,
          users |-> reset_attempts(us, user_id), expired |-> TRUE]
    ELSE [in_cooldown |-> TRUE, remaining |-> us[user_id].cooldown_until - t,
          users |-> reset_attempts(us, user_id), expired |-> FALSE]

\* is_in_cooldown as a sliding cooldown: a check during the cooldown restarts it
is_in_cooldown_sliding(us, user_id, t) ==
    IF ~(user_id \in DOMAIN us) \/ us[user_id].cooldown_until = Null
    THEN [in_cooldown |-> FALSE, remaining |-> 0, users |-> us, expired |-> FALSE]
    ELSE IF t >= us[user_id].cooldown_until
    THEN [in_cooldown |-> FALSE, remaining |-> 0,
          users |-> reset_attempts(us, user_id), expired |-> TRUE]
    ELSE [in_cooldown |-> TRUE, remaining |-> cooldown_seconds,
          users |-> [us EXCEPT ![user_id].cooldown_until = t + cooldown_seconds],
          expired |-> FALSE]

\* db.py:184-196  returns (is_cooldown, seconds_remaining), the table it leaves and
\* whether it took the "Cooldown expired, reset" branch
is_in_cooldown(us, user_id, t) ==
    LET user == get_user(us, user_id)
    IN  IF ~has_user(us, user_id) \/ ~Truthy(user.cooldown_until)
        THEN [in_cooldown |-> FALSE, remaining |-> 0, users |-> us,
              expired |-> FALSE]
        ELSE IF t >= user.cooldown_until
        THEN [in_cooldown |-> FALSE, remaining |-> 0,
              users |-> reset_attempts(us, user_id), expired |-> TRUE]
        ELSE [in_cooldown |-> TRUE, remaining |-> user.cooldown_until - t,
              users |-> us, expired |-> FALSE]

-----------------------------------------------------------------------------
(* Lobby handlers (handlers/lobby.py, handlers/start.py) *)

\* a Python dict: d[k] = v, d.pop(k, None), d.get(k, default)
EmptyDict == [x \in {} |-> 0]
DictSet(d, k, v) == [x \in DOMAIN d \cup {k} |-> IF x = k THEN v ELSE d[x]]
DictPop(d, k) == [x \in DOMAIN d \ {k} |-> d[x]]
DictGet(d, k, default) == IF k \in DOMAIN d THEN d[k] ELSE default

\* _active_challenges.get(user_id) is None
NoEmoji == "None"

\* the rate limiter with "<=" for "<": a callback exactly 300 ms later is dropped
check_rate_limit_exclusive(user_id) ==
    LET last == DictGet(last_callback, user_id, 0)
    IN  ~(clock - last <= CALLBACK_COOLDOWN)

\* lobby.py:23-30  True if the callback is allowed (times in milliseconds)
check_rate_limit(user_id) ==
    LET last == DictGet(last_callback, user_id, 0)
    IN  ~(clock - last < CALLBACK_COOLDOWN)

\* What the handler of the last event answered: the handler (op), the user, the
\* message shown (result), the number shown with it (info: the seconds of cooldown
\* remaining, the attempts remaining, or the cooldown_until a wrong answer
\* returned) and whether its cooldown check reset an expired cooldown.
Outcome(op, user_id, result, info, expired) ==
    [op |-> op, user |-> user_id, result |-> result, info |-> info,
     expired |-> expired]

NoOutcome == Outcome("none", 0, "none", 0, FALSE)

\* a callback dropped by the rate limiter: "await callback.answer(); return"
Dropped(op, user_id) ==
    /\ ~check_rate_limit(user_id)
    /\ out' = Outcome(op, user_id, "Dropped", 0, FALSE)
    /\ UNCHANGED <<users, settings, active_challenges, last_callback, config, clock, tasks>>

\* start.py:17-70  /start, with or without a deep link
start(user_id) ==
    /\ users' = ensure_user(users, user_id)
    /\ out' = Outcome("start", user_id, "ShowWelcome", 0, FALSE)
    /\ UNCHANGED <<settings, active_challenges, last_callback, config, clock, tasks>>

\* lobby.py:44-75
on_join(user_id) ==
    \/ Dropped("join", user_id)
    \/ /\ check_rate_limit(user_id)
       /\ last_callback' = DictSet(last_callback, user_id, clock)
       /\ LET cd == is_in_cooldown(users, user_id, now)
          IN  /\ users' = cd.users
              /\ out' = IF cd.in_cooldown
                        THEN Outcome("join", user_id, "ShowCooldown", cd.remaining, FALSE)
                        ELSE Outcome("join", user_id, "ShowRules", 0, cd.expired)
       /\ UNCHANGED <<settings, active_challenges, config, clock, tasks>>

\* lobby.py:37-41  random.choice(texts.CAPTCHA_CHALLENGES), stored for the user
IssueChallenge(user_id) ==
    \E correct_emoji \in CAPTCHA_CHALLENGES :
        active_challenges' = DictSet(active_challenges, user_id, correct_emoji)

\* on_agree without the cooldown check
on_agree_unchecked(user_id) ==
    \/ Dropped("agree", user_id)
    \/ /\ check_rate_limit(user_id)
       /\ last_callback' = DictSet(last_callback, user_id, clock)
       /\ users' = set_agreed(users, user_id, now)
       /\ IssueChallenge(user_id)
       /\ out' = Outcome("agree", user_id, "ShowChallenge", 0, FALSE)
       /\ UNCHANGED <<settings, config, clock, tasks>>

\* on_agree that clears the attempts of the user along with the agreement
on_agree_forgiving(user_id) ==
    \/ Dropped("agree", user_id)
    \/ /\ check_rate_limit(user_id)
       /\ last_callback' = DictSet(last_callback, user_id, clock)
       /\ LET cd == is_in_cooldown(users, user_id, now)
          IN  IF cd.in_cooldown
              THEN /\ users' = cd.users
                   /\ out' = Outcome("agree", user_id, "ShowCooldown", cd.remaining, FALSE)
                   /\ UNCHANGED active_challenges
              ELSE /\ users' = set_agreed(reset_attempts(cd.users, user_id), user_id, now)
                   /\ IssueChallenge(user_id)
                   /\ out' = Outcome("agree", user_id, "ShowChallenge", 0, cd.expired)
       /\ UNCHANGED <<settings, config, clock, tasks>>

\* lobby.py:78-116
on_agree(user_id) ==
    \/ Dropped("agree", user_id)
    \/ /\ check_rate_limit(user_id)
       /\ last_callback' = DictSet(last_callback, user_id, clock)
       /\ LET cd == is_in_cooldown(users, user_id, now)
          IN  IF cd.in_cooldown
              THEN /\ users' = cd.users
                   /\ out' = Outcome("agree", user_id, "ShowCooldown", cd.remaining, FALSE)
                   /\ UNCHANGED active_challenges
              ELSE /\ users' = set_agreed(cd.users, user_id, now)
                   /\ IssueChallenge(user_id)
                   /\ out' = Outcome("agree", user_id, "ShowChallenge", 0, cd.expired)
       /\ UNCHANGED <<settings, config, clock, tasks>>

\* lobby.py:119-140
on_cancel(user_id) ==
    \/ Dropped("cancel", user_id)
    \/ /\ check_rate_limit(user_id)
       /\ last_callback' = DictSet(last_callback, user_id, clock)
       /\ active_challenges' = DictPop(active_challenges, user_id)
       /\ out' = Outcome("cancel", user_id, "Cancelled", 0, FALSE)
       /\ UNCHANGED <<users, settings, config, clock, tasks>>

\* a stale answer recorded as a wrong answer
StaleSession_counted(cd, user_id) ==
    /\ users' = increment_attempts(cd.users, user_id, now, config.max_attempts,
                                   config.cooldown_seconds).users
    /\ IssueChallenge(user_id)
    /\ out' = Outcome("captcha", user_id, "SessionExpired", 0, cd.expired)

\* lobby.py:172-183  no active challenge: a new one is issued, nothing is counted
StaleSession(cd, user_id) ==
    /\ users' = cd.users
    /\ IssueChallenge(user_id)
    /\ out' = Outcome("captcha", user_id, "SessionExpired", 0, cd.expired)

\* lobby.py:185-195  the right answer
CorrectAnswer(cd, user_id) ==
    /\ active_challenges' = DictPop(active_challenges, user_id)
    /\ users' = set_verified(cd.users, user_id, now)
    /\ out' = Outcome("captcha", user_id, "ShowSuccess", 0, cd.expired)

\* a wrong answer that leaves the challenge in place when the cooldown starts
WrongAnswer_keeps_session(cd, user_id) ==
    LET inc == increment_attempts(cd.users, user_id, now, config.max_attempts,
                                  config.cooldown_seconds)
    IN  /\ users' = inc.users
        /\ IF Truthy(inc.cooldown_until)
           THEN /\ UNCHANGED active_challenges
                /\ out' = Outcome("captcha", user_id, "TooManyAttempts",
                                  inc.cooldown_until, cd.expired)
           ELSE /\ IssueChallenge(user_id)
                /\ out' = Outcome("captcha", user_id, "ShowWrongAnswer",
                                  config.max_attempts - inc.count, cd.expired)

\* lobby.py:196-228  a wrong answer
WrongAnswer(cd, user_id) ==
    LET inc == increment_attempts(cd.users, user_id, now, config.max_attempts,
                                  config.cooldown_seconds)
    IN  /\ users' = inc.users
        /\ IF Truthy(inc.cooldown_until)
           THEN /\ active_challenges' = DictPop(active_challenges, user_id)
                /\ out' = Outcome("captcha", user_id, "TooManyAttempts",
                                  inc.cooldown_until, cd.expired)
           ELSE /\ IssueChallenge(user_id)
                /\ out' = Outcome("captcha", user_id, "ShowWrongAnswer",
                                  config.max_attempts - inc.count, cd.expired)

\* lobby.py:143-228
on_captcha_answer(user_id, selected_emoji) ==
    \/ Dropped("captcha", user_id)
    \/ /\ check_rate_limit(user_id)
       /\ last_callback' = DictSet(last_callback, user_id, clock)
       /\ LET correct_emoji == DictGet(active_challenges, user_id, NoEmoji)
              cd == is_in_cooldown(users, user_id, now)
          IN  IF cd.in_cooldown
              THEN /\ users' = cd.users
                   /\ out' = Outcome("captcha", user_id, "ShowCooldown", cd.remaining, FALSE)
                   /\ UNCHANGED active_challenges
              ELSE IF correct_emoji = NoEmoji
              THEN StaleSession(cd, user_id)
              ELSE IF selected_emoji = correct_emoji
              THEN CorrectAnswer(cd, user_id)
              ELSE WrongAnswer(cd, user_id)
       /\ UNCHANGED <<settings, config, clock, tasks>>

\* What is left of an answer whose handler was ended by an exception of the
\* database call named: the emoji selected and the call that raised
Failure(user_id, selected_emoji, call) ==
    [op |-> "captcha", user |-> user_id, result |-> "StoreFailure",
     selected |-> selected_emoji, call |-> call]

\* lobby.py:143-198  an answer during which the database call named raises (the
\* read of is_in_cooldown, set_verified, or increment_attempts): the statements
\* before the call have run, the call has written nothing, and the exception
\* leaves the handler, which has no try block
on_captcha_answer_store_failure(user_id, selected_emoji, call) ==
    /\ check_rate_limit(user_id)
    /\ last_callback' = DictSet(last_callback, user_id, clock)
    /\ LET correct_emoji == DictGet(active_challenges, user_id, NoEmoji)
           cd == is_in_cooldown(users, user_id, now)
       IN  \/ /\ call = "is_in_cooldown"
              /\ UNCHANGED <<users, active_challenges>>
           \/ /\ call = "set_verified"
              /\ ~cd.in_cooldown
              /\ correct_emoji # NoEmoji
              /\ selected_emoji = correct_emoji
              /\ active_challenges' = DictPop(active_challenges, user_id)
              /\ users' = cd.users
           \/ /\ call = "increment_attempts"
              /\ ~cd.in_cooldown
              /\ correct_emoji # NoEmoji
              /\ selected_emoji # correct_emoji
              /\ users' = cd.users
              /\ UNCHANGED active_challenges
    /\ out' = Failure(user_id, selected_emoji, call)
    /\ UNCHANGED <<settings, config, clock, tasks>>

\* lobby.py:231-257
on_check_cooldown(user_id) ==
    \/ Dropped("check_cooldown", user_id)
    \/ /\ check_rate_limit(user_id)
       /\ last_callback' = DictSet(last_callback, user_id, clock)
       /\ LET cd == is_in_cooldown(users, user_id, now)
          IN  /\ users' = cd.users
              /\ out' = IF cd.in_cooldown
                        THEN Outcome("check_cooldown", user_id, "PleaseWait",
                                     cd.remaining, FALSE)
                        ELSE Outcome("check_cooldown", user_id, "ShowRules", 0, cd.expired)
       /\ UNCHANGED <<settings, active_challenges, config, clock, tasks>>

\* a restart that keeps the challenge sessions, as if they were stored
restart_keeps_sessions ==
    /\ last_callback' = EmptyDict
    /\ tasks' = EmptyDict
    /\ out' = Outcome("restart", 0, "Restarted", 0, FALSE)
    /\ UNCHANGED <<users, settings, active_challenges, config, clock>>

\* the module globals of lobby.py:19 and lobby.py:34 start empty in a new process;
\* the SQLite file is kept (db.py:38-53 CREATE TABLE IF NOT EXISTS)
restart ==
    /\ active_challenges' = EmptyDict
    /\ last_callback' = EmptyDict
    /\ tasks' = EmptyDict
    /\ out' = Outcome("restart", 0, "Restarted", 0, FALSE)
    /\ UNCHANGED <<users, settings, config, clock>>

-----------------------------------------------------------------------------
(* Settings table (db.py) *)

\* db.py:200-206
get_setting(st, key, default) == DictGet(st, key, default)

\* db.py:208-215
set_setting(st, key, value) == DictSet(st, key, value)

\* db.py:217-220
get_lockdown(st) == get_setting(st, "lockdown", "0") = "1"

\* db.py:222-224
set_lockdown(st, enabled) == set_setting(st, "lockdown", IF enabled THEN "1" ELSE "0")

\* get_strict_mode that takes every stored value but "1" for unset
get_strict_mode_only_on(st, default) ==
    LET val == get_setting(st, "strict_mode", "")
    IN  IF val # "1" THEN default ELSE TRUE

\* db.py:226-231
get_strict_mode(st, default) ==
    LET val == get_setting(st, "strict_mode", "")
    IN  IF val = "" THEN default ELSE val = "1"

\* db.py:233-235
set_strict_mode(st, enabled) == set_setting(st, "strict_mode", IF enabled THEN "1" ELSE "0")

-----------------------------------------------------------------------------
(* Join requests (handlers/join_requests.py) *)

\* decide with strict mode tested before the verification
decide_strict_first(lockdown, verified_recently, in_cooldown, strict_mode) ==
    IF lockdown
    THEN [result |-> "Decline", reason |-> "lockdown"]
    ELSE IF strict_mode
    THEN [result |-> "Decline", reason |-> "strict"]
    ELSE IF verified_recently /\ ~in_cooldown
    THEN [result |-> "Approve", reason |-> "verified"]
    ELSE [result |-> "Hold", reason |-> "soft"]

\* decide with the verification tested before the lockdown
decide_verified_first(lockdown, verified_recently, in_cooldown, strict_mode) ==
    IF verified_recently /\ ~in_cooldown
    THEN [result |-> "Approve", reason |-> "verified"]
    ELSE IF lockdown
    THEN [result |-> "Decline", reason |-> "lockdown"]
    ELSE IF strict_mode
    THEN [result |-> "Decline", reason |-> "strict"]
    ELSE [result |-> "Hold", reason |-> "soft"]

\* join_requests.py:39-92  the branches on the values read: the outcome and the
\* branch that gave it
decide(lockdown, verified_recently, in_cooldown, strict_mode) ==
    IF lockdown
    THEN [result |-> "Decline", reason |-> "lockdown"]
    ELSE IF verified_recently /\ ~in_cooldown
    THEN [result |-> "Approve", reason |-> "verified"]
    ELSE IF strict_mode
    THEN [result |-> "Decline", reason |-> "strict"]
    ELSE [result |-> "Hold", reason |-> "soft"]

\* What the handler did with the last join request, the chat the request was
\* for, and the values of verified_recently and in_cooldown it computed (FALSE
\* when not computed).
Decision(user_id, chat_id, result, reason, verified_recently, in_cooldown) ==
    [op |-> "join_request", user |-> user_id, chat |-> chat_id, result |-> result,
     reason |-> reason, verified_recently |-> verified_recently,
     in_cooldown |-> in_cooldown]

\* on_join_request without the test of the target chat
on_join_request_any_chat(user_id, chat_id) ==
    /\ LET us1 == set_join_request_time(users, user_id, now)
           lockdown == get_lockdown(settings)
           verified_recently ==
               is_verified_recently(us1, user_id, now, config.verify_ttl_seconds)
           cd == is_in_cooldown(us1, user_id, now)
           strict_mode == get_strict_mode(settings, config.strict_mode)
           d == decide(lockdown, verified_recently, cd.in_cooldown, strict_mode)
       IN  IF lockdown
           THEN /\ users' = us1
                /\ out' = Decision(user_id, chat_id, d.result, d.reason, FALSE, FALSE)
           ELSE /\ users' = cd.users
                /\ out' = Decision(user_id, chat_id, d.result, d.reason,
                                   verified_recently, cd.in_cooldown)
    /\ UNCHANGED <<settings, active_challenges, last_callback, config, clock, tasks>>

\* join_requests.py:17-92
on_join_request(user_id, chat_id) ==
    /\ IF chat_id # config.group_chat_id
       THEN /\ out' = Decision(user_id, chat_id, "Ignored", "not_target", FALSE, FALSE)
            /\ UNCHANGED users
       ELSE LET us1 == set_join_request_time(users, user_id, now)
                lockdown == get_lockdown(settings)
                verified_recently ==
                    is_verified_recently(us1, user_id, now, config.verify_ttl_seconds)
                cd == is_in_cooldown(us1, user_id, now)
                strict_mode == get_strict_mode(settings, config.strict_mode)
                d == decide(lockdown, verified_recently, cd.in_cooldown, strict_mode)
            IN  IF lockdown
                THEN /\ users' = us1
                     /\ out' = Decision(user_id, chat_id, d.result, d.reason, FALSE, FALSE)
                ELSE /\ users' = cd.users
                     /\ out' = Decision(user_id, chat_id, d.result, d.reason,
                                        verified_recently, cd.in_cooldown)
    /\ UNCHANGED <<settings, active_challenges, last_callback, config, clock, tasks>>

-----------------------------------------------------------------------------
(* Admin commands (handlers/admin.py) *)

\* the lockdown flag and the strict flag that the settings table st holds (the
\* strict flag being the configured default while none is stored)
Flags(st) ==
    [lockdown |-> ("lockdown" \in DOMAIN st /\ st["lockdown"] = "1"),
     strict_mode |-> IF "strict_mode" \in DOMAIN st
                     THEN st["strict_mode"] = "1"
                     ELSE config.strict_mode]

\* The join-request handlers suspended at an await while a command changes the
\* settings go on in the new settings table st: each adds the flags of st to
\* those that have existed since it started (its field seen).
Lived(ts, st) ==
    [t \in DOMAIN ts |->
        IF ts[t].op = "join_request"
        THEN [ts[t] EXCEPT !.seen = @ \cup {Flags(st)}]
        ELSE ts[t]]

\* message.text.split(maxsplit=1)[1] of the commands explored; NoArg: no argument
NoArg == "<none>"
CommandArgs == {NoArg, "on", "OFF ", "off", "strict", "Soft", "soft", "maybe"}

\* admin.py:47  args[1].lower().strip()
LowerStrip(arg) ==
    CASE arg = "OFF " -> "off"
      [] arg = "Soft" -> "soft"
      [] OTHER -> arg

\* is_admin with the membership test inverted
is_admin_inverted(sender) == sender \notin config.admin_ids

\* admin.py:17-32
is_admin(sender) == sender \in config.admin_ids

AdminReply(op, sender, result) == [op |-> op, user |-> sender, result |-> result]

\* admin.py:35-58
cmd_lockdown(sender, arg) ==
    /\ IF ~is_admin(sender)
       THEN /\ out' = AdminReply("lockdown", sender, "NotAuthorized")
            /\ UNCHANGED settings
       ELSE IF arg = NoArg
       THEN /\ out' = AdminReply("lockdown", sender, "Usage")
            /\ UNCHANGED settings
       ELSE LET mode == LowerStrip(arg)
            IN  IF mode = "on"
                THEN /\ settings' = set_lockdown(settings, TRUE)
                     /\ out' = AdminReply("lockdown", sender, "LockdownOn")
                ELSE IF mode = "off"
                THEN /\ settings' = set_lockdown(settings, FALSE)
                     /\ out' = AdminReply("lockdown", sender, "LockdownOff")
                ELSE /\ out' = AdminReply("lockdown", sender, "Usage")
                     /\ UNCHANGED settings
    /\ tasks' = Lived(tasks, settings')
    /\ UNCHANGED <<users, active_challenges, last_callback, config, clock>>

\* admin.py:61-84
cmd_mode(sender, arg) ==
    /\ IF ~is_admin(sender)
       THEN /\ out' = AdminReply("mode", sender, "NotAuthorized")
            /\ UNCHANGED settings
       ELSE IF arg = NoArg
       THEN /\ out' = AdminReply("mode", sender, "Usage")
            /\ UNCHANGED settings
       ELSE LET mode == LowerStrip(arg)
            IN  IF mode = "strict"
                THEN /\ settings' = set_strict_mode(settings, TRUE)
                     /\ out' = AdminReply("mode", sender, "ModeStrict")
                ELSE IF mode = "soft"
                THEN /\ settings' = set_strict_mode(settings, FALSE)
                     /\ out' = AdminReply("mode", sender, "ModeSoft")
                ELSE /\ out' = AdminReply("mode", sender, "Usage")
                     /\ UNCHANGED settings
    /\ tasks' = Lived(tasks, settings')
    /\ UNCHANGED <<users, active_challenges, last_callback, config, clock>>

\* db.py:239-246  COUNT(*) ... WHERE verified_at > now - 86400 (a NULL verified_at
\* never satisfies the comparison)
count_verified_last_24h(us, t) ==
    Cardinality({k \in DOMAIN us :
                    us[k].verified_at # Null /\ us[k].verified_at > t - STATS_WINDOW})

\* db.py:248-252
count_total_users(us) == Cardinality(DOMAIN us)

\* admin.py:102-110  the status message
StatusReply(sender, strict_mode, lockdown, verified_24h, total_users) ==
    [op |-> "status", user |-> sender, result |-> "Status",
     mode |-> IF strict_mode THEN "Strict" ELSE "Soft",
     lockdown |-> IF lockdown THEN "ON" ELSE "OFF",
     verified_24h |-> verified_24h, total_users |-> total_users]

\* admin.py:87-110
cmd_status(sender) ==
    /\ out' = IF ~is_admin(sender)
              THEN AdminReply("status", sender, "NotAuthorized")
              ELSE StatusReply(sender,
                               get_strict_mode(settings, config.strict_mode),
                               get_lockdown(settings),
                               count_verified_last_24h(users, now),
                               count_total_users(users))
    /\ UNCHANGED <<users, settings, active_challenges, last_callback, config, clock, tasks>>

-----------------------------------------------------------------------------
(* Time *)

\* time passes between events
Tick ==
    /\ \/ \E d \in Jumps :
             /\ now + d <= StartTime + Horizon
             /\ clock' = (now + d) * 1000
       \/ /\ (clock % 1000) + SubStep < 1000
          /\ clock' = clock + SubStep
    /\ out' = NoOutcome
    /\ UNCHANGED <<users, settings, active_challenges, last_callback, config, tasks>>

\* time passes within the second (handlers may be suspended meanwhile)
Pause ==
    /\ (clock % 1000) + SubStep < 1000
    /\ clock' = clock + SubStep
    /\ out' = NoOutcome
    /\ UNCHANGED <<users, settings, active_challenges, last_callback, config, tasks>>

-----------------------------------------------------------------------------
(* Specifications *)

Selections == CAPTCHA_CHALLENGES \cup CAPTCHA_DECOYS
Chats == {"group", "elsewhere"}
Senders == {100, 200}

\* config.py:30-52, main.py:77  the configuration the running process holds: the
\* configured modes, and the defaults of config.py:73-75 for the rest
Config(strict_mode, lockdown) ==
    [phase |-> "running", group_chat_id |-> "group", strict_mode |-> strict_mode,
     lockdown |-> lockdown, verify_ttl_seconds |-> verify_ttl_seconds,
     cooldown_seconds |-> cooldown_seconds, max_attempts |-> max_attempts,
     admin_ids |-> {100}]

\* main.py:84-119  a new database, empty module globals
\* The lobby: verification, attempts and cooldown of a user
Init ==
    /\ users = EmptyDict
    /\ settings = EmptyDict
    /\ active_challenges = EmptyDict
    /\ last_callback = EmptyDict
    /\ config = Config(FALSE, FALSE)
    /\ clock = StartTime * 1000
    /\ out = NoOutcome
    /\ tasks = EmptyDict

Next ==
    \/ \E u \in Users : start(u)
    \/ \E u \in Users : on_join(u)
    \/ \E u \in Users : on_agree(u)
    \/ \E u \in Users : on_cancel(u)
    \/ \E u \in Users, e \in Selections : on_captcha_answer(u, e)
    \/ \E u \in Users : on_check_cooldown(u)
    \/ restart
    \/ Tick

Spec == Init /\ [][Next]_vars

\* The lobby with time that keeps advancing: time.time() goes on whatever the
\* bot handles, so the clock step is taken as long as the run has time left
SpecFair == Init /\ [][Next]_vars /\ WF_vars(Tick)

\* Admission: join requests and admin commands.  The run starts after the user
\* has gone through the lobby: the users table is the one left by one of these
\* lobby histories (each is a table Spec reaches by AdmissionStart), the
\* settings table is still empty, and the configured strict mode and lockdown
\* defaults are either value.
AfterWrong(us, user_id, t) ==
    increment_attempts(us, user_id, t, max_attempts, cooldown_seconds).users

LobbyHistories(u) ==
    LET t0 == StartTime
        t1 == StartTime + 300
        agreed == set_agreed(EmptyDict, u, t0)
        verified == set_verified(agreed, u, t0)
    IN  { EmptyDict,
          ensure_user(EmptyDict, u),
          agreed,
          verified,
          set_verified(set_agreed(verified, u, t1), u, t1),
          AfterWrong(AfterWrong(agreed, u, t0), u, t0),
          AfterWrong(AfterWrong(AfterWrong(agreed, u, t0), u, t0), u, t0),
          AfterWrong(AfterWrong(AfterWrong(verified, u, t0), u, t1), u, t1) }

\* the instant the admission run starts at: after the last event of the histories
AdmissionStart == (StartTime + 300) * 1000 + SubStep

InitAdmission ==
    /\ \E u \in Users : users \in LobbyHistories(u)
    /\ settings = EmptyDict
    /\ active_challenges = EmptyDict
    /\ last_callback = EmptyDict
    /\ config \in {Config(s, l) : s \in BOOLEAN, l \in BOOLEAN}
    /\ clock = AdmissionStart
    /\ out = NoOutcome
    /\ tasks = EmptyDict

NextAdmission ==
    \/ \E u \in Users, c \in Chats : on_join_request(u, c)
    \/ \E a \in Senders, arg \in CommandArgs : cmd_lockdown(a, arg)
    \/ \E a \in Senders, arg \in CommandArgs : cmd_mode(a, arg)
    \/ \E a \in Senders : cmd_status(a)
    \/ Tick

SpecAdmission == InitAdmission /\ [][NextAdmission]_vars

\* A series of answers: time passes between the answers of a user, the outcome
\* of the last event handled staying on record
Wait ==
    /\ \/ \E d \in Jumps :
             /\ now + d <= StartTime + Horizon
             /\ clock' = (now + d) * 1000
       \/ /\ (clock % 1000) + SubStep < 1000
          /\ clock' = clock + SubStep
    /\ UNCHANGED <<users, settings, active_challenges, last_callback, config, out, tasks>>

NextSeries ==
    \/ \E u \in Users : on_agree(u)
    \/ \E u \in Users, e \in Selections : on_captcha_answer(u, e)
    \/ Wait

SpecSeries == Init /\ [][NextSeries]_vars

\* The lobby with a database whose calls can fail
StoreCalls == {"is_in_cooldown", "set_verified", "increment_attempts"}

NextStoreFailure ==
    \/ \E u \in Users : on_agree(u)
    \/ \E u \in Users, e \in Selections : on_captcha_answer(u, e)
    \/ \E u \in Users, e \in Selections, c \in StoreCalls :
          on_captcha_answer_store_failure(u, e, c)
    \/ Tick

SpecStoreFailure == Init /\ [][NextStoreFailure]_vars

\* The lobby and the join requests of a user together, in a deployment whose
\* verification outlives a cooldown: VERIFY_TTL_SECONDS is twice its default and
\* COOLDOWN_SECONDS half its default (config.py:73-74), so that a cooldown entered
\* after a verification can elapse while the verification still counts.
LongTtlConfig ==
    [Config(FALSE, FALSE) EXCEPT !.verify_ttl_seconds = 2 * verify_ttl_seconds,
                                 !.cooldown_seconds = cooldown_seconds \div 2]

\* main.py:84-119  a new users table and empty module globals; the settings table
\* is empty or holds the lockdown an administrator switched on earlier
InitLifecycle ==
    /\ users = EmptyDict
    /\ settings \in {EmptyDict, set_lockdown(EmptyDict, TRUE)}
    /\ active_challenges = EmptyDict
    /\ last_callback = EmptyDict
    /\ config = LongTtlConfig
    /\ clock = StartTime * 1000
    /\ out = NoOutcome
    /\ tasks = EmptyDict

NextLifecycle ==
    \/ \E u \in Users : on_agree(u)
    \/ \E u \in Users : on_cancel(u)
    \/ \E u \in Users, e \in Selections : on_captcha_answer(u, e)
    \/ \E u \in Users : on_check_cooldown(u)
    \/ \E u \in Users, c \in Chats : on_join_request(u, c)
    \/ Tick

SpecLifecycle == InitLifecycle /\ [][NextLifecycle]_vars

-----------------------------------------------------------------------------
(* Startup: the configuration read from the environment (config.py, main.py) *)

\* os.getenv(key) is None
NoEnv == "<unset>"

\* the values of the environment variable MAX_ATTEMPTS explored
MaxAttemptsEnv == {NoEnv, "3", "2", "1", "0", "-1", "three"}

\* int(s) of the strings explored: the number, or ValueError raised
ParseInt(val) ==
    CASE val = "3" -> [raised |-> FALSE, value |-> 3]
      [] val = "2" -> [raised |-> FALSE, value |-> 2]
      [] val = "1" -> [raised |-> FALSE, value |-> 1]
      [] val = "0" -> [raised |-> FALSE, value |-> 0]
      [] val = "-1" -> [raised |-> FALSE, value |-> 0 - 1]
      [] OTHER -> [raised |-> TRUE, value |-> 0]

\* config.py:17-19  int(os.getenv(key, str(default)))
get_int(val, default) ==
    IF val = NoEnv THEN [raised |-> FALSE, value |-> default] ELSE ParseInt(val)

\* config.py:55-80  the Config built from the environment env, or ValueError
\* raised: a required variable is missing (BOT_TOKEN stands for the three
\* required ones) or MAX_ATTEMPTS is no integer
load_config(env) ==
    LET parsed == get_int(env.MAX_ATTEMPTS, max_attempts)
    IN  IF env.BOT_TOKEN = NoEnv \/ parsed.raised
        THEN [raised |-> TRUE, config |-> [phase |-> "exited"]]
        ELSE [raised |-> FALSE,
              config |-> [Config(FALSE, FALSE) EXCEPT !.max_attempts = parsed.value]]

\* the process before main() has loaded the configuration from env
Starting(env) == [phase |-> "starting", env |-> env]

\* main.py:75-81  load_config(); a ValueError is logged as a configuration error
\* and the process exits
main_load_config ==
    /\ config.phase = "starting"
    /\ LET loaded == load_config(config.env)
       IN  /\ config' = loaded.config
           /\ out' = IF loaded.raised
                     THEN Outcome("main", 0, "ConfigurationError", 0, FALSE)
                     ELSE Outcome("main", 0, "ConfigLoaded", 0, FALSE)
    /\ UNCHANGED <<users, settings, active_challenges, last_callback, clock, tasks>>

\* main.py:62-81  a new process with a new database
InitStartup ==
    /\ users = EmptyDict
    /\ settings = EmptyDict
    /\ active_challenges = EmptyDict
    /\ last_callback = EmptyDict
    /\ config \in {Starting([BOT_TOKEN |-> b, MAX_ATTEMPTS |-> m]) :
                      b \in {NoEnv, "token"}, m \in MaxAttemptsEnv}
    /\ clock = StartTime * 1000
    /\ out = NoOutcome
    /\ tasks = EmptyDict

\* main.py:131  updates are handled once the configuration is loaded
Polling == config.phase = "running"

NextStartup ==
    \/ main_load_config
    \/ Polling /\ \E u \in Users : on_agree(u)
    \/ Polling /\ \E u \in Users, e \in Selections : on_captcha_answer(u, e)
    \/ Polling /\ Pause

SpecStartup == InitStartup /\ [][NextStartup]_vars

-----------------------------------------------------------------------------
(* Polling supervision: the retry loop and the cleanup of main() (main.py) *)

\* main.py:125-126
max_retries == 10
base_retry_delay == 5
\* main.py:150  "min(..., 300)  # Cap at 5 minutes"
max_retry_delay == 300

\* main.py:219  asyncio.run(main()): the task of main() among the tasks
MainTask == 0

\* main.py:124, 128  main() about to test the loop condition for the first time:
\* the database connected, the bot session open, no retry counted, shutdown_event
\* (main.py:69) not set; started counts the calls of dp.start_polling
MainStarted ==
    [op |-> "main", pc |-> "while", retry_count |-> 0, started |-> 0,
     shutdown_event |-> FALSE, db |-> "connected", session |-> "open"]

MainAt(pc) ==
    /\ MainTask \in DOMAIN tasks
    /\ tasks[MainTask].op = "main"
    /\ tasks[MainTask].pc = pc

\* main.py:150  min(base_retry_delay * (2 ** (retry_count - 1)), 300)
retry_delay(retry_count) ==
    LET delay == base_retry_delay * (2 ^ (retry_count - 1))
    IN  IF delay < max_retry_delay THEN delay ELSE max_retry_delay

\* what a call of dp.start_polling ends with: it returns, or it raises the
\* exception named (text is str(e))
PollingEnds ==
    { [kind |-> "returned", text |-> ""],
      [kind |-> "TelegramNetworkError", text |-> "Request timeout error"],
      [kind |-> "ConnectionError", text |-> "Connection reset by peer"],
      [kind |-> "TelegramAPIError", text |-> "Unauthorized"],
      [kind |-> "TelegramAPIError", text |-> "Bad Request: INVALID token"],
      [kind |-> "TelegramAPIError", text |-> "Too Many Requests: retry after 5"],
      [kind |-> "KeyboardInterrupt", text |-> ""],
      [kind |-> "RuntimeError", text |-> "invalid state"] }

\* main.py:167  '"Unauthorized" in str(e) or "invalid" in str(e).lower()' of the
\* texts explored
fatal_api_error(text) ==
    CASE text = "Unauthorized" -> TRUE
      [] text = "Bad Request: INVALID token" -> TRUE
      [] text = "invalid state" -> TRUE
      [] OTHER -> FALSE

\* "break": the loop is left and the cleanup of main.py:202 comes next
Break(reason) ==
    /\ tasks' = [tasks EXCEPT ![MainTask].pc = "db_close"]
    /\ out' = Outcome("main", 0, reason, tasks[MainTask].retry_count, FALSE)

\* a retry that starts the count anew when the retries are used up
Retry_forever(reason) ==
    LET retry_count == tasks[MainTask].retry_count + 1
    IN  IF retry_count > max_retries
        THEN /\ tasks' = [tasks EXCEPT ![MainTask].retry_count = 0,
                                       ![MainTask].pc = "retry_wait"]
             /\ out' = Outcome("main", 0, reason, 0, FALSE)
        ELSE /\ tasks' = [tasks EXCEPT ![MainTask].retry_count = retry_count,
                                       ![MainTask].pc = "retry_wait"]
             /\ out' = Outcome("main", 0, reason, retry_count, FALSE)

\* main.py:144-158, 171-178, 190-197  the retry is counted; past max_retries the
\* loop is left, otherwise main() waits for shutdown_event with the timeout
Retry(reason) ==
    LET retry_count == tasks[MainTask].retry_count + 1
    IN  IF retry_count > max_retries
        THEN /\ tasks' = [tasks EXCEPT ![MainTask].retry_count = retry_count,
                                       ![MainTask].pc = "db_close"]
             /\ out' = Outcome("main", 0, "MaxRetriesReached", retry_count, FALSE)
        ELSE /\ tasks' = [tasks EXCEPT ![MainTask].retry_count = retry_count,
                                       ![MainTask].pc = "retry_wait"]
             /\ out' = Outcome("main", 0, reason, retry_count, FALSE)

\* main.py:128-138  the loop condition and the call of dp.start_polling
main_while ==
    /\ MainAt("while")
    /\ IF tasks[MainTask].shutdown_event
       THEN Break("ShutdownRequested")
       ELSE /\ tasks' = [tasks EXCEPT ![MainTask].pc = "start_polling",
                                      ![MainTask].started = @ + 1]
            /\ out' = Outcome("main", 0, "PollingStarted",
                              tasks[MainTask].retry_count, FALSE)
    /\ UNCHANGED <<users, settings, active_challenges, last_callback, config, clock>>

\* main.py:139-200  dp.start_polling has ended with e: the branch of the try
\* statement taken, up to its break or to the wait of the retry
start_polling_ends(e) ==
    /\ MainAt("start_polling")
    /\ CASE e.kind = "returned" -> Break("PollingStoppedNormally")
         [] e.kind \in {"TelegramNetworkError", "ConnectionError", "TimeoutError"} ->
                Retry("NetworkError")
         [] e.kind = "TelegramAPIError" ->
                IF fatal_api_error(e.text)
                THEN Break("FatalApiError")
                ELSE Retry("ApiError")
         [] e.kind = "KeyboardInterrupt" -> Break("KeyboardInterrupt")
         [] OTHER -> Retry("UnexpectedError")
    /\ UNCHANGED <<users, settings, active_challenges, last_callback, config, clock>>

\* main.py:158-162  asyncio.wait_for(shutdown_event.wait(), timeout=retry_delay)
\* times out: the loop goes round
retry_wait_timeout ==
    /\ MainAt("retry_wait")
    /\ ~tasks[MainTask].shutdown_event
    /\ clock' = clock + retry_delay(tasks[MainTask].retry_count) * 1000
    /\ tasks' = [tasks EXCEPT ![MainTask].pc = "while"]
    /\ out' = Outcome("main", 0, "Retrying", tasks[MainTask].retry_count, FALSE)
    /\ UNCHANGED <<users, settings, active_challenges, last_callback, config>>

\* main.py:158-160  shutdown_event is set before the timeout: break
retry_wait_shutdown ==
    /\ MainAt("retry_wait")
    /\ tasks[MainTask].shutdown_event
    /\ Break("ShutdownDuringRetryWait")
    /\ UNCHANGED <<users, settings, active_challenges, last_callback, config, clock>>

\* main.py:55-59  SIGINT or SIGTERM arrives while main() runs
signal_handler ==
    /\ MainTask \in DOMAIN tasks
    /\ tasks[MainTask].pc # "done"
    /\ ~tasks[MainTask].shutdown_event
    /\ tasks' = [tasks EXCEPT ![MainTask].shutdown_event = TRUE]
    /\ out' = Outcome("signal_handler", 0, "ShutdownRequested",
                      tasks[MainTask].retry_count, FALSE)
    /\ UNCHANGED <<users, settings, active_challenges, last_callback, config, clock>>

\* main.py:202-207, db.py:55-60  db.close(); an exception of it is logged and the
\* connection object is left in place
db_close(raised) ==
    /\ MainAt("db_close")
    /\ tasks' = [tasks EXCEPT ![MainTask].pc = "session_close",
                              ![MainTask].db = IF raised THEN "close_raised"
                                               ELSE "closed"]
    /\ out' = Outcome("main", 0, IF raised THEN "ErrorClosingDatabase"
                                 ELSE "DatabaseClosed",
                      tasks[MainTask].retry_count, FALSE)
    /\ UNCHANGED <<users, settings, active_challenges, last_callback, config, clock>>

\* main.py:209-214  bot.session.close(), then "Shutdown complete"
bot_session_close(raised) ==
    /\ MainAt("session_close")
    /\ tasks' = [tasks EXCEPT ![MainTask].pc = "done",
                              ![MainTask].session = IF raised THEN "close_raised"
                                                    ELSE "closed"]
    /\ out' = Outcome("main", 0, "ShutdownComplete",
                      tasks[MainTask].retry_count, FALSE)
    /\ UNCHANGED <<users, settings, active_challenges, last_callback, config, clock>>

\* main.py:84-126  the database connected and the bot initialised
InitSupervision ==
    /\ users = EmptyDict
    /\ settings = EmptyDict
    /\ active_challenges = EmptyDict
    /\ last_callback = EmptyDict
    /\ config = Config(FALSE, FALSE)
    /\ clock = StartTime * 1000
    /\ out = NoOutcome
    /\ tasks = DictSet(EmptyDict, MainTask, MainStarted)

\* the steps of main()
MainStep ==
    \/ main_while
    \/ \E e \in PollingEnds : start_polling_ends(e)
    \/ retry_wait_timeout
    \/ retry_wait_shutdown
    \/ \E raised \in BOOLEAN : db_close(raised)
    \/ \E raised \in BOOLEAN : bot_session_close(raised)

NextSupervision ==
    \/ MainStep
    \/ signal_handler

\* The event loop resumes main() whenever it can go on, the timeout of a retry
\* wait fires, and every call of dp.start_polling ends, by returning or by raising
SpecSupervision == InitSupervision /\ [][NextSupervision]_vars /\ WF_vars(MainStep)

-----------------------------------------------------------------------------
(* Handlers run as concurrent tasks: one action per segment between awaits *)

\* the tasks that can be suspended at the same time
TaskIds == {1, 2}

\* the task t is suspended in handler op at the await named pc
At(t, op, pc) ==
    /\ t \in DOMAIN tasks
    /\ tasks[t].op = op
    /\ tasks[t].pc = pc

\* the task moves on to its next await, keeping or changing its locals
Suspend(t, task) == tasks' = DictSet(tasks, t, task)

\* the handler of the task returns
Return(t) == tasks' = DictPop(tasks, t)

\* join_requests.py:23-34  the chat test, up to "await db.set_join_request_time"
jr_start(t, user_id, chat_id) ==
    /\ t \notin DOMAIN tasks
    /\ IF chat_id # config.group_chat_id
       THEN /\ out' = Decision(user_id, chat_id, "Ignored", "not_target", FALSE, FALSE)
            /\ UNCHANGED tasks
       ELSE /\ Suspend(t, [op |-> "join_request", pc |-> "set_join_request_time",
                           user |-> user_id, chat |-> chat_id,
                           verified_recently |-> FALSE, in_cooldown |-> FALSE,
                           seen |-> {Flags(settings)}])
            /\ UNCHANGED out
    /\ UNCHANGED <<users, settings, active_challenges, last_callback, config, clock>>

\* join_requests.py:34  the upsert, up to "await db.get_lockdown"
jr_set_join_request_time(t) ==
    /\ At(t, "join_request", "set_join_request_time")
    /\ users' = set_join_request_time(users, tasks[t].user, now)
    /\ Suspend(t, [tasks[t] EXCEPT !.pc = "get_lockdown"])
    /\ UNCHANGED <<settings, active_challenges, last_callback, config, clock, out>>

\* join_requests.py:40-55  the lockdown read and its branch
jr_get_lockdown(t) ==
    /\ At(t, "join_request", "get_lockdown")
    /\ IF get_lockdown(settings)
       THEN LET d == decide(TRUE, FALSE, FALSE, FALSE)
            IN  /\ out' = Decision(tasks[t].user, tasks[t].chat, d.result, d.reason,
                                   FALSE, FALSE)
                /\ Return(t)
       ELSE /\ Suspend(t, [tasks[t] EXCEPT !.pc = "is_verified_recently"])
            /\ UNCHANGED out
    /\ UNCHANGED <<users, settings, active_challenges, last_callback, config, clock>>

\* join_requests.py:55-58  the verification read
jr_is_verified_recently(t) ==
    /\ At(t, "join_request", "is_verified_recently")
    /\ Suspend(t, [tasks[t] EXCEPT
                      !.pc = "is_in_cooldown",
                      !.verified_recently =
                          is_verified_recently(users, tasks[t].user, now,
                                               config.verify_ttl_seconds)])
    /\ UNCHANGED <<users, settings, active_challenges, last_callback, config, clock, out>>

\* join_requests.py:58-75  the cooldown read and the approval branch
\* (the two awaits inside is_in_cooldown are taken as one segment)
jr_is_in_cooldown(t) ==
    /\ At(t, "join_request", "is_in_cooldown")
    /\ LET cd == is_in_cooldown(users, tasks[t].user, now)
           d == decide(FALSE, tasks[t].verified_recently, cd.in_cooldown, FALSE)
       IN  /\ users' = cd.users
           /\ IF tasks[t].verified_recently /\ ~cd.in_cooldown
              THEN /\ out' = Decision(tasks[t].user, tasks[t].chat, d.result, d.reason,
                                      tasks[t].verified_recently, cd.in_cooldown)
                   /\ Return(t)
              ELSE /\ Suspend(t, [tasks[t] EXCEPT !.pc = "get_strict_mode",
                                                  !.in_cooldown = cd.in_cooldown])
                   /\ UNCHANGED out
    /\ UNCHANGED <<settings, active_challenges, last_callback, config, clock>>

\* join_requests.py:75-92  the strict-mode read and its branch
jr_get_strict_mode(t) ==
    /\ At(t, "join_request", "get_strict_mode")
    /\ LET strict_mode == get_strict_mode(settings, config.strict_mode)
           d == decide(FALSE, tasks[t].verified_recently, tasks[t].in_cooldown,
                       strict_mode)
       IN  out' = Decision(tasks[t].user, tasks[t].chat, d.result, d.reason,
                           tasks[t].verified_recently, tasks[t].in_cooldown)
    /\ Return(t)
    /\ UNCHANGED <<users, settings, active_challenges, last_callback, config, clock>>

\* A join request handled as a task while admin commands change the settings
JoinTaskIds == {1}

NextJoinConcurrent ==
    \/ \E t \in JoinTaskIds, u \in Users, c \in Chats : jr_start(t, u, c)
    \/ \E t \in JoinTaskIds : jr_set_join_request_time(t)
    \/ \E t \in JoinTaskIds : jr_get_lockdown(t)
    \/ \E t \in JoinTaskIds : jr_is_verified_recently(t)
    \/ \E t \in JoinTaskIds : jr_is_in_cooldown(t)
    \/ \E t \in JoinTaskIds : jr_get_strict_mode(t)
    \/ \E a \in Senders, arg \in CommandArgs : cmd_lockdown(a, arg)
    \/ \E a \in Senders, arg \in CommandArgs : cmd_mode(a, arg)

SpecJoinConcurrent == InitAdmission /\ [][NextJoinConcurrent]_vars

\* lobby.py:143-161  the rate limiter and the read of the active challenge, up
\* to "await db.is_in_cooldown"
ans_start(t, user_id, selected_emoji) ==
    \/ /\ t \notin DOMAIN tasks
       /\ Dropped("captcha", user_id)
    \/ /\ t \notin DOMAIN tasks
       /\ check_rate_limit(user_id)
       /\ last_callback' = DictSet(last_callback, user_id, clock)
       /\ Suspend(t, [op |-> "captcha", pc |-> "is_in_cooldown", user |-> user_id,
                      selected_emoji |-> selected_emoji,
                      correct_emoji |-> DictGet(active_challenges, user_id, NoEmoji),
                      expired |-> FALSE, now |-> 0, row |-> NewRow])
       /\ UNCHANGED <<users, settings, active_challenges, config, clock, out>>

\* lobby.py:172-198, db.py:123-124  the handler once the cooldown check has
\* answered "not in cooldown" (expired: the check reset an elapsed cooldown), up
\* to its next await: set_verified for the right answer, ensure_user (in
\* increment_attempts, after its "now = int(time.time())") for a wrong one
ans_not_in_cooldown(t, expired) ==
    LET user_id == tasks[t].user
    IN  IF tasks[t].correct_emoji = NoEmoji
        THEN /\ IssueChallenge(user_id)
             /\ out' = Outcome("captcha", user_id, "SessionExpired", 0, expired)
             /\ Return(t)
        ELSE IF tasks[t].selected_emoji = tasks[t].correct_emoji
        THEN /\ active_challenges' = DictPop(active_challenges, user_id)
             /\ Suspend(t, [tasks[t] EXCEPT !.pc = "set_verified",
                                            !.expired = expired])
             /\ UNCHANGED out
        ELSE /\ Suspend(t, [tasks[t] EXCEPT !.pc = "ensure_user",
                                            !.expired = expired,
                                            !.now = now])
             /\ UNCHANGED <<active_challenges, out>>

\* lobby.py:161-170, db.py:186-196  the read of the row in is_in_cooldown and the
\* branches on it: in cooldown, the handler shows the cooldown and returns; with
\* an elapsed cooldown it goes on to "await self.reset_attempts"; else it goes on
\* as not in cooldown
ans_is_in_cooldown(t) ==
    /\ At(t, "captcha", "is_in_cooldown")
    /\ LET user_id == tasks[t].user
           cd == is_in_cooldown(users, user_id, now)
       IN  IF cd.in_cooldown
           THEN /\ out' = Outcome("captcha", user_id, "ShowCooldown", cd.remaining, FALSE)
                /\ Return(t)
                /\ UNCHANGED active_challenges
           ELSE IF cd.expired
           THEN /\ Suspend(t, [tasks[t] EXCEPT !.pc = "reset_attempts"])
                /\ UNCHANGED <<active_challenges, out>>
           ELSE ans_not_in_cooldown(t, FALSE)
    /\ UNCHANGED <<users, settings, last_callback, config, clock>>

\* db.py:193-194, lobby.py:172-198  the UPDATE of reset_attempts, after which
\* is_in_cooldown answers "not in cooldown"
ans_reset_attempts(t) ==
    /\ At(t, "captcha", "reset_attempts")
    /\ users' = reset_attempts(users, tasks[t].user)
    /\ ans_not_in_cooldown(t, TRUE)
    /\ UNCHANGED <<settings, last_callback, config, clock>>

\* lobby.py:189-195  the UPDATE of set_verified and the success message
ans_set_verified(t) ==
    /\ At(t, "captcha", "set_verified")
    /\ users' = set_verified(users, tasks[t].user, now)
    /\ out' = Outcome("captcha", tasks[t].user, "ShowSuccess", 0, tasks[t].expired)
    /\ Return(t)
    /\ UNCHANGED <<settings, active_challenges, last_callback, config, clock>>

\* db.py:124  "user = await self.ensure_user(user_id)": the row is inserted if
\* absent and read; the task keeps what it read
ans_ensure_user(t) ==
    /\ At(t, "captcha", "ensure_user")
    /\ users' = ensure_user(users, tasks[t].user)
    /\ Suspend(t, [tasks[t] EXCEPT !.pc = "update",
                                   !.row = get_user(users', tasks[t].user)])
    /\ UNCHANGED <<settings, active_challenges, last_callback, config, clock, out>>

\* db.py:126-151, lobby.py:202-228  the count computed from the row read before,
\* the UPDATE of the three columns, and the handler's branch on the cooldown
ans_update(t) ==
    /\ At(t, "captcha", "update")
    /\ LET user_id == tasks[t].user
           inc == increment_attempts(PutRow(users, user_id, tasks[t].row), user_id,
                                     tasks[t].now, config.max_attempts,
                                     config.cooldown_seconds)
       IN  /\ users' = [users EXCEPT
                          ![user_id].attempts_count = inc.count,
                          ![user_id].attempts_window_start =
                              inc.users[user_id].attempts_window_start,
                          ![user_id].cooldown_until = inc.cooldown_until]
           /\ IF Truthy(inc.cooldown_until)
              THEN /\ active_challenges' = DictPop(active_challenges, user_id)
                   /\ out' = Outcome("captcha", user_id, "TooManyAttempts",
                                     inc.cooldown_until, tasks[t].expired)
              ELSE /\ IssueChallenge(user_id)
                   /\ out' = Outcome("captcha", user_id, "ShowWrongAnswer",
                                     config.max_attempts - inc.count, tasks[t].expired)
    /\ Return(t)
    /\ UNCHANGED <<settings, last_callback, config, clock>>

\* Answers handled as tasks: two answers of a user can be in flight together
NextAnswerConcurrent ==
    \/ \E u \in Users : on_agree(u)
    \/ \E t \in TaskIds, u \in Users, e \in Selections : ans_start(t, u, e)
    \/ \E t \in TaskIds : ans_is_in_cooldown(t)
    \/ \E t \in TaskIds : ans_reset_attempts(t)
    \/ \E t \in TaskIds : ans_set_verified(t)
    \/ \E t \in TaskIds : ans_ensure_user(t)
    \/ \E t \in TaskIds : ans_update(t)
    \/ Pause

\* the users table after k wrong answers at t against a live challenge
RECURSIVE WrongAnswers(_, _, _, _, _)
WrongAnswers(us, user_id, t, maxAttempts, k) ==
    IF k = 0
    THEN us
    ELSE increment_attempts(WrongAnswers(us, user_id, t, maxAttempts, k - 1),
                            user_id, t, maxAttempts, cooldown_seconds).users

\* The run starts in a state the lobby has reached with max_attempts = m: nothing
\* yet; or the user has agreed and given k < m wrong answers, 300 s ago, and
\* has a challenge; or the user has given m wrong answers and the cooldown they
\* set ends now.
AnswerHistories(u, m) ==
    LET t0 == StartTime
        agreed == set_agreed(EmptyDict, u, t0)
    IN  { [users |-> EmptyDict, active_challenges |-> EmptyDict,
           last_callback |-> EmptyDict, clock |-> t0 * 1000] }
        \cup
        { [users |-> WrongAnswers(agreed, u, t0, m, k),
           active_challenges |-> IF k < m THEN DictSet(EmptyDict, u, "moon")
                                 ELSE EmptyDict,
           last_callback |-> DictSet(EmptyDict, u, t0 * 1000 + k * SubStep),
           clock |-> IF k < m THEN (t0 + 300) * 1000
                     ELSE (t0 + cooldown_seconds) * 1000] : k \in 0 .. m }

\* config.py:75  the values of max_attempts the concurrent answers are run with
MaxAttemptsRange == 1 .. max_attempts

InitAnswerConcurrent ==
    /\ \E m \in MaxAttemptsRange :
          /\ config = [Config(FALSE, FALSE) EXCEPT !.max_attempts = m]
          /\ \E u \in Users : \E h \in AnswerHistories(u, m) :
                /\ users = h.users
                /\ active_challenges = h.active_challenges
                /\ last_callback = h.last_callback
                /\ clock = h.clock
    /\ settings = EmptyDict
    /\ out = NoOutcome
    /\ tasks = EmptyDict

SpecAnswerConcurrent == InitAnswerConcurrent /\ [][NextAnswerConcurrent]_vars

\* The rate limiter: the callbacks of two users, a few tenths of a second apart
Callers == {1, 2}

\* the clock advances by this number of milliseconds between two callbacks
Jiffy == 100

\* time passes within the second, a jiffy or a sub-step at a time
Moment ==
    /\ \E d \in {Jiffy, SubStep} :
          /\ (clock % 1000) + d < 1000
          /\ clock' = clock + d
    /\ out' = NoOutcome
    /\ UNCHANGED <<users, settings, active_challenges, last_callback, config, tasks>>

NextRateLimit ==
    \/ \E u \in Callers : on_join(u)
    \/ \E u \in Callers : on_agree(u)
    \/ \E u \in Callers : on_cancel(u)
    \/ \E u \in Callers, e \in Selections : on_captcha_answer(u, e)
    \/ \E u \in Callers : on_check_cooldown(u)
    \/ Moment

SpecRateLimit == Init /\ [][NextRateLimit]_vars

-----------------------------------------------------------------------------
(* What the claims speak of, read off the stored state *)

HasRow(u) == u \in DOMAIN users
HasSession(u) == u \in DOMAIN active_challenges

\* cooldown_until is set and still in the future
InCooldown(u) ==
    /\ HasRow(u)
    /\ users[u].cooldown_until # Null
    /\ now < users[u].cooldown_until

\* cooldown_until is set and has passed
CooldownElapsed(u) ==
    /\ HasRow(u)
    /\ users[u].cooldown_until # Null
    /\ now >= users[u].cooldown_until

\* verified_at is set and no older than the TTL
VerifiedWithinTtl(u) ==
    /\ HasRow(u)
    /\ users[u].verified_at # Null
    /\ now - users[u].verified_at <= verify_ttl_seconds

LockdownStored == "lockdown" \in DOMAIN settings /\ settings["lockdown"] = "1"

EffectiveStrict ==
    IF "strict_mode" \in DOMAIN settings
    THEN settings["strict_mode"] = "1"
    ELSE config.strict_mode

\* the policy of the specification, in its order of precedence
ReferencePolicy(u) ==
    IF LockdownStored THEN "Decline"
    ELSE IF VerifiedWithinTtl(u) /\ ~InCooldown(u) THEN "Approve"
    ELSE IF EffectiveStrict THEN "Decline"
    ELSE "Hold"

\* the step handles a join request of u for the configured group
JoinRequestStep(u) ==
    /\ out'.op = "join_request"
    /\ out'.user = u
    /\ out'.result # "Ignored"

\* the step handles a callback of u in handler op that the rate limiter let through
AcceptedStep(op, u) ==
    /\ out'.op = op
    /\ out'.user = u
    /\ out'.result # "Dropped"

-----------------------------------------------------------------------------
(* Claims *)

\* C1: a join request for the configured group ends in exactly one of Approve,
\* Decline, Hold, and in the one the reference policy gives for the state it is
\* handled in: Decline under lockdown; else Approve if verified within the TTL
\* and not in cooldown, also in strict mode; else Decline in strict mode; else Hold.
C1_AdmissionPolicy ==
    [][\A u \in Users :
          JoinRequestStep(u) =>
              /\ out'.result \in {"Approve", "Decline", "Hold"}
              /\ out'.result = ReferencePolicy(u)]_vars

\* a verified user is approved while strict mode is in effect
C1_Witness ==
    /\ out.op = "join_request"
    /\ out.result = "Approve"
    /\ EffectiveStrict
    /\ ~LockdownStored

\* C2: once an admin's lockdown-on is done, the lockdown is stored; only an admin's
\* lockdown-off ends it; and every join request for the group handled while it is
\* stored is declined, whatever the user's verification, cooldown and strict mode.
C2_LockdownDeclines ==
    [][/\ (out'.op = "lockdown" /\ out'.result = "LockdownOn") => LockdownStored'
       /\ (LockdownStored /\ ~LockdownStored') =>
              (out'.op = "lockdown" /\ out'.result = "LockdownOff")
       /\ \A u \in Users :
              (LockdownStored /\ JoinRequestStep(u)) => out'.result = "Decline"]_vars

\* under lockdown, a user verified within the TTL and not in cooldown is declined
C2_Witness ==
    /\ out.op = "join_request"
    /\ out.result = "Decline"
    /\ LockdownStored
    /\ ~EffectiveStrict
    /\ VerifiedWithinTtl(out.user)
    /\ ~InCooldown(out.user)

\* C3: the join-request handler finds the user verified exactly when the user has
\* a row whose verified_at is set and now - verified_at <= ttl.
C3_VerifiedIffWithinTtl ==
    (out.op = "join_request" /\ out.reason \notin {"not_target", "lockdown"}) =>
        (out.verified_recently <=> VerifiedWithinTtl(out.user))

\* a user is found verified at exactly now - verified_at = ttl
C3_Witness ==
    /\ out.op = "join_request"
    /\ out.verified_recently
    /\ HasRow(out.user)
    /\ now - users[out.user].verified_at = verify_ttl_seconds

\* a user is found unverified at exactly now - verified_at = ttl + 1
C3_WitnessExpired ==
    /\ out.op = "join_request"
    /\ out.reason \notin {"not_target", "lockdown"}
    /\ ~out.verified_recently
    /\ HasRow(out.user)
    /\ users[out.user].verified_at # Null
    /\ now - users[out.user].verified_at = verify_ttl_seconds + 1

\* the attempts the user has in the current window when an answer is handled:
\* none without a row, after an elapsed cooldown or after a stale window
PriorCount(u) ==
    IF ~HasRow(u) \/ CooldownElapsed(u) THEN 0
    ELSE IF users[u].attempts_window_start = Null THEN 0
    ELSE IF now - users[u].attempts_window_start > ATTEMPT_WINDOW THEN 0
    ELSE users[u].attempts_count

\* the step records a wrong answer of u
WrongAnswerStep(u) ==
    /\ out'.op = "captcha"
    /\ out'.user = u
    /\ out'.result \in {"ShowWrongAnswer", "TooManyAttempts"}

\* C4: the wrong answer that brings the count of the window to max_attempts sets
\* cooldown_until = now + cooldown_seconds and returns it; every earlier wrong
\* answer of the window leaves cooldown_until empty and returns none.
C4_CooldownTrigger ==
    [][\A u \in Users :
          WrongAnswerStep(u) =>
              LET k == PriorCount(u) + 1
              IN  /\ users'[u].attempts_count = k
                  /\ IF k >= max_attempts
                     THEN /\ users'[u].cooldown_until = now + cooldown_seconds
                          /\ out'.result = "TooManyAttempts"
                          /\ out'.info = now + cooldown_seconds
                     ELSE /\ users'[u].cooldown_until = Null
                          /\ out'.result = "ShowWrongAnswer"]_vars

\* the max_attempts-th wrong answer has just set the cooldown
C4_Witness ==
    /\ out.op = "captcha"
    /\ out.result = "TooManyAttempts"
    /\ users[out.user].attempts_count = max_attempts
    /\ users[out.user].cooldown_until = now + cooldown_seconds

\* C5: a cooldown check (the join and check-cooldown callbacks) of a user whose
\* cooldown_until is set: once now >= cooldown_until it reports not-in-cooldown
\* with 0 seconds remaining and leaves attempts_count = 0 and the window start and
\* cooldown_until empty; while now < cooldown_until it reports in-cooldown with
\* cooldown_until - now remaining and changes nothing.
C5_CooldownLazyExpiry ==
    [][\A u \in Users, op \in {"join", "check_cooldown"} :
          (AcceptedStep(op, u) /\ HasRow(u) /\ users[u].cooldown_until # Null) =>
              IF now >= users[u].cooldown_until
              THEN /\ out'.result = "ShowRules"
                   /\ out'.info = 0
                   /\ out'.expired
                   /\ users'[u].attempts_count = 0
                   /\ users'[u].attempts_window_start = Null
                   /\ users'[u].cooldown_until = Null
              ELSE /\ out'.result \in {"ShowCooldown", "PleaseWait"}
                   /\ out'.info = users[u].cooldown_until - now
                   /\ users' = users
                   /\ active_challenges' = active_challenges]_vars

\* a check has just reset an elapsed cooldown
C5_Witness ==
    /\ out.op = "check_cooldown"
    /\ out.result = "ShowRules"
    /\ out.expired
    /\ users[out.user].attempts_count = 0
    /\ users[out.user].cooldown_until = Null

\* C6: after an answer accepted as a success the user has no challenge session
\* and a row with verified_at = now, and so is verified within the TTL.
C6_SuccessVerifies ==
    (out.op = "captcha" /\ out.result = "ShowSuccess") =>
        /\ ~HasSession(out.user)
        /\ HasRow(out.user)
        /\ users[out.user].verified_at = now
        /\ VerifiedWithinTtl(out.user)

\* C7: after a correct answer the user's row has attempts_count = 0 and the
\* window start and cooldown_until empty.
C7_SuccessForgives ==
    (out.op = "captcha" /\ out.result = "ShowSuccess" /\ HasRow(out.user)) =>
        /\ users[out.user].attempts_count = 0
        /\ users[out.user].attempts_window_start = Null
        /\ users[out.user].cooldown_until = Null

\* a correct answer has just been accepted for a user with a row
C7_Witness ==
    /\ out.op = "captcha"
    /\ out.result = "ShowSuccess"
    /\ HasRow(out.user)
    /\ users[out.user].verified_at = now
    /\ users[out.user].attempts_count = 0

\* C8 as stated: every agree event the rate limiter lets through sets
\* agreed_at = now, in every state of the user.
C8_AgreeAlwaysSets ==
    (out.op = "agree" /\ out.result # "Dropped") =>
        /\ HasRow(out.user)
        /\ users[out.user].agreed_at = now

\* C8 amended: an agree event never errors; outside a cooldown it sets
\* agreed_at = now; during a cooldown it is answered with the cooldown message and
\* changes no row; and agreed_at, once set, is never cleared and never decreases.
C8_AgreeOutsideCooldown ==
    [][\A u \in Users :
          /\ (out'.op = "agree" /\ out'.user = u) =>
                 out'.result \in {"Dropped", "ShowCooldown", "ShowChallenge"}
          /\ AcceptedStep("agree", u) =>
                 IF InCooldown(u)
                 THEN /\ out'.result = "ShowCooldown"
                      /\ users' = users
                 ELSE /\ out'.result = "ShowChallenge"
                      /\ u \in DOMAIN users'
                      /\ users'[u].agreed_at = now
          /\ (HasRow(u) /\ users[u].agreed_at # Null) =>
                 /\ u \in DOMAIN users'
                 /\ users'[u].agreed_at >= users[u].agreed_at]_vars

\* an agree during a cooldown has been turned away, agreed_at keeping its older value
C8_Witness ==
    /\ out.op = "agree"
    /\ out.result = "ShowCooldown"
    /\ InCooldown(out.user)
    /\ users[out.user].agreed_at < now

\* C9: an answer handled while the user is in cooldown is answered with the
\* cooldown message and changes no row and no challenge session, whatever the
\* emoji selected.
C9_AnswerInCooldownRejected ==
    [][\A u \in Users :
          (AcceptedStep("captcha", u) /\ InCooldown(u)) =>
              /\ out'.result = "ShowCooldown"
              /\ out'.info = users[u].cooldown_until - now
              /\ users' = users
              /\ active_challenges' = active_challenges]_vars

\* an answer has just been turned away during a cooldown
C9_Witness ==
    /\ out.op = "captcha"
    /\ out.result = "ShowCooldown"
    /\ InCooldown(out.user)
    /\ users[out.user].attempts_count = max_attempts

\* the four fields of u's row that an uncounted answer must leave alone
SameAttemptsAndVerification(u) ==
    /\ (u \in DOMAIN users') <=> HasRow(u)
    /\ HasRow(u) =>
          /\ users'[u].attempts_count = users[u].attempts_count
          /\ users'[u].attempts_window_start = users[u].attempts_window_start
          /\ users'[u].cooldown_until = users[u].cooldown_until
          /\ users'[u].verified_at = users[u].verified_at

\* C10 as stated: an answer of a user who is not in cooldown and has no challenge
\* session issues a fresh challenge and leaves attempts_count, the window start,
\* cooldown_until and verified_at unchanged.
C10_StaleAnswerChangesNothing ==
    [][\A u \in Users :
          (AcceptedStep("captcha", u) /\ ~InCooldown(u) /\ ~HasSession(u)) =>
              /\ out'.result = "SessionExpired"
              /\ u \in DOMAIN active_challenges'
              /\ SameAttemptsAndVerification(u)]_vars

\* C10 amended: such an answer issues a fresh challenge and is not counted; it
\* leaves verified_at unchanged, and attempts_count, the window start and
\* cooldown_until unchanged too unless the cooldown has elapsed
\* (now >= cooldown_until), in which case the cooldown check resets the three.
C10_StaleAnswerNotCounted ==
    [][\A u \in Users :
          (AcceptedStep("captcha", u) /\ ~InCooldown(u) /\ ~HasSession(u)) =>
              /\ out'.result = "SessionExpired"
              /\ u \in DOMAIN active_challenges'
              /\ IF CooldownElapsed(u)
                 THEN /\ out'.expired
                      /\ users'[u].attempts_count = 0
                      /\ users'[u].attempts_window_start = Null
                      /\ users'[u].cooldown_until = Null
                      /\ users'[u].verified_at = users[u].verified_at
                 ELSE SameAttemptsAndVerification(u)]_vars

\* a stale answer has just been given a fresh challenge, after an elapsed cooldown
C10_Witness ==
    /\ out.op = "captcha"
    /\ out.result = "SessionExpired"
    /\ out.expired
    /\ HasSession(out.user)
    /\ users[out.user].attempts_count = 0

\* C11: after a wrong answer against an active challenge, the challenge session
\* of the user is removed if the recording set a cooldown, and otherwise holds
\* one newly issued challenge, the one later answers are compared against.
C11_WrongAnswerSession ==
    [][\A u \in Users :
          WrongAnswerStep(u) =>
              IF users'[u].cooldown_until # Null
              THEN /\ out'.result = "TooManyAttempts"
                   /\ u \notin DOMAIN active_challenges'
              ELSE /\ out'.result = "ShowWrongAnswer"
                   /\ u \in DOMAIN active_challenges'
                   /\ active_challenges'[u] \in CAPTCHA_CHALLENGES]_vars

\* a first wrong answer has just been given a new challenge
C11_Witness ==
    /\ out.op = "captcha"
    /\ out.result = "ShowWrongAnswer"
    /\ HasSession(out.user)
    /\ users[out.user].attempts_count = 1
    /\ users[out.user].cooldown_until = Null

\* C12: with the events handled one at a time, a user who is in cooldown
\* (cooldown_until set and now < cooldown_until) has no challenge session.
C12_NoSessionInCooldown ==
    \A u \in Users : InCooldown(u) => ~HasSession(u)

\* the wrong answer that started the cooldown has just removed the session
C12_Witness ==
    \E u \in Users :
        /\ InCooldown(u)
        /\ ~HasSession(u)
        /\ out.user = u
        /\ out.result = "TooManyAttempts"

C13_WitnessBoundary ==
    /\ out.op = "captcha"
    /\ out.result \in {"ShowWrongAnswer", "TooManyAttempts"}
    /\ users[out.user].attempts_count > 1
    /\ now - users[out.user].attempts_window_start = ATTEMPT_WINDOW

\* C14: handling a join request for the configured group leaves the user with a
\* row whose last_join_request_at = now, whatever the outcome (Approve, Decline
\* under lockdown or strict mode, Hold).
C14_JoinRequestTimeRecorded ==
    [][\A u \in Users :
          JoinRequestStep(u) =>
              /\ out'.result \in {"Approve", "Decline", "Hold"}
              /\ u \in DOMAIN users'
              /\ users'[u].last_join_request_at = now]_vars

\* a request declined under lockdown has been recorded for a user first seen by it
C14_Witness ==
    /\ out.op = "join_request"
    /\ out.result = "Decline"
    /\ out.reason = "lockdown"
    /\ HasRow(out.user)
    /\ users[out.user].last_join_request_at = now
    /\ users[out.user].agreed_at = Null

\* a held request has been recorded
C14_WitnessHold ==
    /\ out.op = "join_request"
    /\ out.result = "Hold"
    /\ users[out.user].last_join_request_at = now

\* C15: a join request for a chat other than the configured group is ignored:
\* nothing is approved or declined and no row, setting, session or rate-limit
\* entry is created or changed; a request for the group is decided.
C15_NonTargetIgnored ==
    [][out'.op = "join_request" =>
          IF out'.chat # config.group_chat_id
          THEN /\ out'.result = "Ignored"
               /\ UNCHANGED <<users, settings, active_challenges, last_callback>>
          ELSE out'.result \in {"Approve", "Decline", "Hold"}]_vars

\* a request for another chat has just been ignored, the user still without a row
C15_Witness ==
    /\ out.op = "join_request"
    /\ out.chat # config.group_chat_id
    /\ out.result = "Ignored"
    /\ ~HasRow(out.user)

\* C18: when the decision reaches the strict-mode test, it declines exactly when
\* the stored strict_mode setting is "1" if an admin has stored one (either
\* value), and exactly when the configured default is true if none is stored.
C18_EffectiveStrictMode ==
    [][\A u \in Users :
          (JoinRequestStep(u) /\ out'.reason \in {"strict", "soft"}) =>
              (out'.result = "Decline") =
                  (IF "strict_mode" \in DOMAIN settings
                   THEN settings["strict_mode"] = "1"
                   ELSE config.strict_mode)]_vars

\* a request is held under a stored soft mode although the default is strict
C18_Witness ==
    /\ out.op = "join_request"
    /\ out.result = "Hold"
    /\ config.strict_mode
    /\ "strict_mode" \in DOMAIN settings
    /\ settings["strict_mode"] = "0"

\* C19: while no lockdown setting has been stored, a join request is decided
\* with the configured lockdown default: with the default true it is declined.
C19_LockdownDefault ==
    [][\A u \in Users :
          (JoinRequestStep(u) /\ "lockdown" \notin DOMAIN settings /\ config.lockdown) =>
              /\ out'.result = "Decline"
              /\ out'.reason = "lockdown"]_vars

\* C20: an admin command (lockdown, mode, status) of a sender who is not in the
\* admin list is answered "not authorized" and changes no setting; the settings
\* change only by a lockdown or mode command of an admin with a valid argument.
C20_UnauthorizedAdmin ==
    [][/\ (out'.op \in {"lockdown", "mode", "status"}
             /\ out'.user \notin config.admin_ids) =>
              /\ out'.result = "NotAuthorized"
              /\ settings' = settings
       /\ (settings' # settings) =>
              /\ out'.op \in {"lockdown", "mode"}
              /\ out'.user \in config.admin_ids
              /\ out'.result \in {"LockdownOn", "LockdownOff",
                                  "ModeStrict", "ModeSoft"}]_vars

\* a status command of a sender outside the admin list has been turned away
C20_Witness ==
    /\ out.op = "status"
    /\ out.user \notin config.admin_ids
    /\ out.result = "NotAuthorized"

\* the reference policy on the flags f for the user u
SnapshotPolicy(f, u) ==
    IF f.lockdown THEN "Decline"
    ELSE IF VerifiedWithinTtl(u) /\ ~InCooldown(u) THEN "Approve"
    ELSE IF f.strict_mode THEN "Decline"
    ELSE "Hold"

\* C16: the decision of a join request is the reference policy on the lockdown
\* flag, strict flag and state of the user as they were together at some instant
\* between the start and the end of its handling, whatever admin commands ran
\* in between.
C16_DecisionFromOneSnapshot ==
    [][\A t \in TaskIds :
          (t \in DOMAIN tasks /\ tasks[t].op = "join_request"
             /\ t \notin DOMAIN tasks' /\ out'.op = "join_request") =>
              \E f \in tasks[t].seen :
                  out'.result = SnapshotPolicy(f, tasks[t].user)]_vars

\* C17: no wrong answer is lost: when a wrong answer is written while the stored
\* window is running (started at most 600 s ago, no cooldown set), the stored
\* attempts_count goes up by exactly 1, whatever other answers of the user are
\* being handled at the same time.
C17_NoLostIncrement ==
    [][\A t \in TaskIds :
          (At(t, "captcha", "update") /\ t \notin DOMAIN tasks') =>
              LET u == tasks[t].user
              IN  (/\ users[u].attempts_window_start # Null
                   /\ now - users[u].attempts_window_start <= ATTEMPT_WINDOW
                   /\ users[u].cooldown_until = Null) =>
                      users'[u].attempts_count = users[u].attempts_count + 1]_vars

\* the step handles a callback of the user u (any of the five lobby callbacks)
CallbackStep(u) ==
    /\ out'.op \in {"join", "agree", "cancel", "captcha", "check_cooldown"}
    /\ out'.user = u

\* C21: a callback of a user is accepted exactly when the user has no accepted
\* callback yet or the last accepted one is at least 300 ms old; an accepted
\* callback becomes the last accepted one; a rejected one is dropped and changes
\* no rate-limit entry, no user record and no challenge session; and a callback
\* of one user leaves the rate-limit entry of every other user as it was.
C21_RateLimiter ==
    [][\A u \in Callers :
          CallbackStep(u) =>
              /\ (out'.result # "Dropped") <=>
                     (u \notin DOMAIN last_callback
                        \/ clock - last_callback[u] >= CALLBACK_COOLDOWN)
              /\ (out'.result # "Dropped") =>
                     (u \in DOMAIN last_callback' /\ last_callback'[u] = clock)
              /\ (out'.result = "Dropped") =>
                     UNCHANGED <<last_callback, users, active_challenges>>
              /\ \A v \in Callers \ {u} :
                     /\ (v \in DOMAIN last_callback') <=> (v \in DOMAIN last_callback)
                     /\ v \in DOMAIN last_callback =>
                            last_callback'[v] = last_callback[v]]_vars

\* a callback exactly 300 ms after the user's last accepted one has been accepted,
\* the other user having had a callback accepted in between
C21_Witness ==
    \E u \in Callers, v \in Callers :
        /\ u # v
        /\ out.user = u
        /\ out.op = "captcha"
        /\ out.result # "Dropped"
        /\ last_callback[u] = clock
        /\ v \in DOMAIN last_callback
        /\ clock - last_callback[v] \in 1 .. (CALLBACK_COOLDOWN - 1)
        /\ clock = StartTime * 1000 + CALLBACK_COOLDOWN

\* a callback less than 300 ms after the last accepted one has been dropped, the
\* other user's callback at the same instant having been accepted
C21_WitnessDropped ==
    \E u \in Callers, v \in Callers :
        /\ u # v
        /\ out.user = u
        /\ out.result = "Dropped"
        /\ clock - last_callback[u] \in 1 .. (CALLBACK_COOLDOWN - 1)
        /\ v \in DOMAIN last_callback
        /\ last_callback[v] = clock


\* C22: in every row of the users table, attempts_window_start is empty exactly
\* when attempts_count is 0, also while answers of the user are handled
\* concurrently.
C22_WindowIffCounted ==
    \A u \in DOMAIN users :
        (users[u].attempts_window_start = Null) <=> (users[u].attempts_count = 0)

\* a wrong answer is counted in a running window while another handler, which
\* read the row before, is still to write
C22_Witness ==
    \E t \in TaskIds, u \in Users :
        /\ At(t, "captcha", "update")
        /\ tasks[t].user = u
        /\ tasks[t].row.attempts_count < users[u].attempts_count
        /\ users[u].attempts_window_start # Null
        /\ out.result = "ShowWrongAnswer"

\* an elapsed cooldown has been reset by a handler while another is suspended
C22_WitnessReset ==
    \E t \in TaskIds, u \in Users :
        /\ t \in DOMAIN tasks
        /\ tasks[t].user = u
        /\ out.op = "captcha"
        /\ out.expired
        /\ users[u].attempts_count = 0
        /\ users[u].attempts_window_start = Null

\* C23: a configuration with max_attempts <= 0 is rejected at startup: the
\* process never handles updates with max_attempts <= 0.
C23_MaxAttemptsValidated ==
    Polling => config.max_attempts >= 1

\* the step handles an answer of u that is the first callback of u since the
\* process started
FirstAnswerStep(u) ==
    /\ out'.op = "captcha"
    /\ out'.user = u
    /\ u \notin DOMAIN last_callback

\* C24 as stated: a restart removes every challenge session and rate-limit entry
\* and leaves the users and settings tables unchanged, and the first answer of a
\* user after it is given a fresh challenge with attempts_count unchanged.
C24_FirstAnswerAlwaysStale ==
    [][/\ out'.op = "restart" =>
              /\ active_challenges' = EmptyDict
              /\ last_callback' = EmptyDict
              /\ UNCHANGED <<users, settings>>
       /\ \A u \in Users :
              FirstAnswerStep(u) =>
                  /\ out'.result = "SessionExpired"
                  /\ u \in DOMAIN active_challenges'
                  /\ HasRow(u) =>
                         users'[u].attempts_count = users[u].attempts_count]_vars

\* C24 amended: a restart removes every challenge session and rate-limit entry
\* and leaves the users and settings tables unchanged; the first answer of a
\* user after it is never dropped and never handled as a right or a wrong
\* answer: in cooldown it is answered with the cooldown message and changes
\* nothing; otherwise it is given a fresh challenge and is not counted,
\* attempts_count staying as it was unless the cooldown has elapsed, in which
\* case the cooldown check resets it to 0.
C24_RestartStaleSession ==
    [][/\ out'.op = "restart" =>
              /\ active_challenges' = EmptyDict
              /\ last_callback' = EmptyDict
              /\ UNCHANGED <<users, settings>>
       /\ \A u \in Users :
              FirstAnswerStep(u) =>
                  IF InCooldown(u)
                  THEN /\ out'.result = "ShowCooldown"
                       /\ UNCHANGED <<users, active_challenges>>
                  ELSE /\ out'.result = "SessionExpired"
                       /\ u \in DOMAIN active_challenges'
                       /\ (u \in DOMAIN users') <=> HasRow(u)
                       /\ HasRow(u) =>
                              users'[u].attempts_count =
                                  IF CooldownElapsed(u) THEN 0
                                  ELSE users[u].attempts_count]_vars

\* the only callback of the process so far is an answer of a user with a wrong
\* answer on record (so a restart lies between the two): it was given a fresh
\* challenge and the count was kept
C24_Witness ==
    \E u \in Users :
        /\ out.op = "captcha"
        /\ out.user = u
        /\ out.result = "SessionExpired"
        /\ DOMAIN last_callback = {u}
        /\ last_callback[u] = clock
        /\ HasSession(u)
        /\ HasRow(u)
        /\ users[u].attempts_count = 2
        /\ users[u].cooldown_until = Null

\* the process has just restarted: no session and no rate-limit entry is left,
\* the record of the wrong answers is
C24_WitnessRestart ==
    \E u \in Users :
        /\ out.op = "restart"
        /\ active_challenges = EmptyDict
        /\ last_callback = EmptyDict
        /\ HasRow(u)
        /\ users[u].attempts_count = 2

\* C25: an answer is accepted as a success only if it equals the challenge
\* stored for the user at the moment the handler accepts it (removes the session
\* and goes on to record the verification), whatever other answer of the user is
\* handled at the same time.
C25_SuccessAgainstStoredToken ==
    [][\A t \in TaskIds :
          (/\ t \in DOMAIN tasks
           /\ t \in DOMAIN tasks'
           /\ tasks[t].pc # "set_verified"
           /\ tasks'[t].pc = "set_verified") =>
              /\ tasks[t].user \in DOMAIN active_challenges
              /\ active_challenges[tasks[t].user] = tasks[t].selected_emoji]_vars

\* C26: while a user is in cooldown (cooldown_until = c stored, now < c), the
\* write of a wrong-answer handler that was in flight when the cooldown was
\* stored leaves cooldown_until = c and attempts_count >= max_attempts.
C26_CooldownOnlyExpires ==
    [][\A t \in TaskIds :
          (At(t, "captcha", "update") /\ t \notin DOMAIN tasks') =>
              LET u == tasks[t].user
              IN  InCooldown(u) =>
                      /\ users'[u].cooldown_until = users[u].cooldown_until
                      /\ users'[u].attempts_count >= config.max_attempts]_vars

\* C27: a wrong answer recorded less than 600 s after the previous wrong answer
\* of the user (the last event handled, at the time the rate limiter holds for
\* the user) is counted in the same window: attempts_count goes up by 1 and the
\* window start is kept.
C27_WindowSinceLastWrong ==
    [][\A u \in Users :
          (/\ out.op = "captcha"
           /\ out.user = u
           /\ out.result = "ShowWrongAnswer"
           /\ now - (last_callback[u] \div 1000) < ATTEMPT_WINDOW
           /\ last_callback'[u] # last_callback[u]
           /\ WrongAnswerStep(u)) =>
              /\ users'[u].attempts_count = users[u].attempts_count + 1
              /\ users'[u].attempts_window_start = users[u].attempts_window_start]_vars

\* C28: when a database call fails while the right answer of a user with an
\* active challenge is handled, the challenge session is still there with the
\* same emoji and the users table is unchanged.
C28_StoreFailureAtomic ==
    [][\A u \in Users :
          (/\ out'.op = "captcha"
           /\ out'.user = u
           /\ out'.result = "StoreFailure"
           /\ HasSession(u)
           /\ out'.selected = active_challenges[u]) =>
              /\ u \in DOMAIN active_challenges'
              /\ active_challenges'[u] = active_challenges[u]
              /\ users' = users]_vars

\* C29: in every row of the users table, cooldown_until is set exactly when
\* attempts_count >= max_attempts (max_attempts being 1 or more), also while
\* answers of the user are handled concurrently.
C29_CooldownIffMaxAttempts ==
    \A u \in DOMAIN users :
        (users[u].cooldown_until # Null) <=>
            (users[u].attempts_count >= config.max_attempts)

\* a handler that read the row before the cooldown was stored has written over
\* it: no cooldown with a count below max_attempts, another handler still
\* suspended with the cooldown it is about to write
C29_Witness ==
    \E t \in TaskIds, u \in Users :
        /\ At(t, "captcha", "update")
        /\ tasks[t].user = u
        /\ tasks[t].row.attempts_count = config.max_attempts - 1
        /\ out.op = "captcha"
        /\ out.result = "ShowWrongAnswer"
        /\ users[u].cooldown_until = Null
        /\ users[u].attempts_count < tasks[t].row.attempts_count

\* the cooldown has just been stored with attempts_count = max_attempts
C29_WitnessCooldown ==
    \E u \in Users :
        /\ out.op = "captcha"
        /\ out.result = "TooManyAttempts"
        /\ users[u].cooldown_until # Null
        /\ users[u].attempts_count = config.max_attempts
        /\ tasks # EmptyDict

\* C30: in every state, a user whose verified_at is set has agreed_at set.
C30_VerifiedImpliesAgreed ==
    \A u \in DOMAIN users :
        users[u].verified_at # Null => users[u].agreed_at # Null

\* the step is the handling of a correct answer of u
SuccessStep(u) ==
    /\ out'.op = "captcha"
    /\ out'.user = u
    /\ out'.result = "ShowSuccess"

\* verified_at of u after the step is the one before it, unless the step is a
\* correct answer; it is never emptied and never earlier than before
VerifiedAtKept(u) ==
    HasRow(u) =>
        /\ u \in DOMAIN users'
        /\ users[u].verified_at # Null => users'[u].verified_at # Null
        /\ users'[u].verified_at >= users[u].verified_at
        /\ ~SuccessStep(u) => users'[u].verified_at = users[u].verified_at

\* a user whose verified_at is set is found verified by is_verified_recently
\* after the step for as long as the time after the step is within the TTL of it,
\* in cooldown or not
ReportedVerifiedUntilTtl(u) ==
    (/\ HasRow(u)
     /\ users[u].verified_at # Null
     /\ (clock' \div 1000) - users[u].verified_at <= config.verify_ttl_seconds) =>
        is_verified_recently(users', u, clock' \div 1000, config.verify_ttl_seconds)

\* the step handles a join request of a user verified within the TTL whose
\* cooldown has elapsed
JoinRequestAfterCooldown(u) ==
    /\ JoinRequestStep(u)
    /\ HasRow(u)
    /\ users[u].verified_at # Null
    /\ now - users[u].verified_at <= config.verify_ttl_seconds
    /\ CooldownElapsed(u)

\* C31 as stated: verified_at is never cleared and never decreases, and wrong
\* answers, cooldowns, agree, cancel and join requests leave it unchanged; a user
\* verified at t0 is reported verified until t0 + ttl, and a join request of such
\* a user whose cooldown has elapsed within the TTL is approved.
C31_ApprovedOnceCooldownElapsed ==
    [][\A u \in Users :
          /\ VerifiedAtKept(u)
          /\ ReportedVerifiedUntilTtl(u)
          /\ JoinRequestAfterCooldown(u) => out'.result = "Approve"]_vars

\* C31 (amended): verified_at is never cleared and never decreases, and wrong
\* answers, cooldowns, agree, cancel and join requests leave it unchanged; a user
\* verified at t0 is reported verified until t0 + ttl, and a join request for the
\* configured group of such a user whose cooldown has elapsed within the TTL
\* resets the cooldown and is approved when lockdown is off, and is declined with
\* the cooldown left in place when lockdown is on.
C31_VerifiedAtNeverCleared ==
    [][\A u \in Users :
          /\ VerifiedAtKept(u)
          /\ ReportedVerifiedUntilTtl(u)
          /\ JoinRequestAfterCooldown(u) =>
                 IF LockdownStored
                 THEN /\ out'.result = "Decline"
                      /\ users'[u].cooldown_until = users[u].cooldown_until
                 ELSE /\ out'.result = "Approve"
                      /\ users'[u].cooldown_until = Null
                      /\ users'[u].attempts_count = 0]_vars

\* a join request finds a user verified and in a cooldown entered after the
\* verification: the wrong answers have left verified_at in place
C31_Witness ==
    \E u \in Users :
        /\ HasRow(u)
        /\ out.op = "join_request"
        /\ out.user = u
        /\ out.verified_recently
        /\ out.in_cooldown
        /\ out.result = "Hold"
        /\ users[u].verified_at # Null
        /\ users[u].cooldown_until >= users[u].verified_at + config.cooldown_seconds

\* a verified user's cooldown has elapsed within the TTL of the verification
C31_WitnessElapsed ==
    \E u \in Users :
        /\ CooldownElapsed(u)
        /\ users[u].verified_at # Null
        /\ users[u].cooldown_until >= users[u].verified_at + config.cooldown_seconds
        /\ now - users[u].verified_at <= config.verify_ttl_seconds

\* a join request is approved on a verification older than a whole cooldown, the
\* user having agreed again after it
C31_WitnessApproved ==
    \E u \in Users :
        /\ HasRow(u)
        /\ out.op = "join_request"
        /\ out.user = u
        /\ out.result = "Approve"
        /\ users[u].agreed_at > users[u].verified_at
        /\ now - users[u].agreed_at >= config.cooldown_seconds
        /\ users[u].cooldown_until = Null

\* the step handles an agree of u that is answered with a challenge
AgreeStep(u) ==
    /\ AcceptedStep("agree", u)
    /\ out'.result = "ShowChallenge"

\* the row of u after the step is the row before it (a new row where there was
\* none) with agreed_at = now, and u holds a challenge session
AgreedOnly(u) ==
    /\ u \in DOMAIN users'
    /\ users'[u] = [(IF HasRow(u) THEN users[u] ELSE NewRow) EXCEPT !.agreed_at = now]
    /\ u \in DOMAIN active_challenges'
    /\ active_challenges'[u] \in CAPTCHA_CHALLENGES
    /\ settings' = settings

\* C32 as stated: an accepted agree changes only agreed_at and the challenge
\* session of the user: attempts_count, attempts_window_start, cooldown_until,
\* verified_at and last_join_request_at are unchanged.
C32_AgreeChangesOnlyAgreedAt ==
    [][\A u \in Users : AgreeStep(u) => AgreedOnly(u)]_vars

\* C32 (amended): an accepted agree sets agreed_at = now, replaces the challenge
\* session of the user, and leaves verified_at and last_join_request_at
\* unchanged; it leaves attempts_count, attempts_window_start and cooldown_until
\* unchanged too, so that re-agreeing does not forgive the wrong answers counted
\* in the current window, unless the user's cooldown has elapsed (cooldown_until
\* set and now >= cooldown_until): the cooldown check of the agree then resets
\* the three to 0 / empty / empty.
C32_AgreeFrame ==
    [][\A u \in Users :
          AgreeStep(u) =>
              IF CooldownElapsed(u)
              THEN /\ users'[u] = [users[u] EXCEPT !.agreed_at = now,
                                                   !.attempts_count = 0,
                                                   !.attempts_window_start = Null,
                                                   !.cooldown_until = Null]
                   /\ out'.expired
                   /\ u \in DOMAIN active_challenges'
                   /\ settings' = settings
              ELSE AgreedOnly(u)]_vars

\* a user with a wrong answer counted, a verification and a join request on
\* record has just agreed again: the count and the window are still there
C32_Witness ==
    \E u \in Users :
        /\ HasRow(u)
        /\ out.op = "agree"
        /\ out.user = u
        /\ out.result = "ShowChallenge"
        /\ users[u].agreed_at = now
        /\ users[u].attempts_count > 0
        /\ users[u].attempts_window_start # Null
        /\ users[u].attempts_window_start < now
        /\ users[u].verified_at # Null
        /\ users[u].last_join_request_at # Null
        /\ HasSession(u)

\* an agree has just reset an elapsed cooldown
C32_WitnessElapsed ==
    \E u \in Users :
        /\ HasRow(u)
        /\ out.op = "agree"
        /\ out.user = u
        /\ out.result = "ShowChallenge"
        /\ out.expired
        /\ users[u].attempts_count = 0
        /\ users[u].cooldown_until = Null

\* during a cooldown of u the step does not move cooldown_until later
CooldownNotMovedLater(u) ==
    InCooldown(u) =>
        /\ u \in DOMAIN users'
        /\ users'[u].cooldown_until <= users[u].cooldown_until

\* once the cooldown of u is over, a cooldown check reports not-in-cooldown, an
\* agree issues a challenge, and the answer that matches the challenge verifies u
AfterCooldown(u) ==
    (HasRow(u) /\ ~InCooldown(u)) =>
        /\ AcceptedStep("check_cooldown", u) =>
               /\ out'.result = "ShowRules"
               /\ out'.info = 0
        /\ AcceptedStep("agree", u) =>
               /\ out'.result = "ShowChallenge"
               /\ u \in DOMAIN active_challenges'
        /\ (/\ HasSession(u)
            /\ check_rate_limit(u)
            /\ on_captcha_answer(u, active_challenges[u])) =>
               /\ out'.result = "ShowSuccess"
               /\ users'[u].verified_at = now
               /\ users'[u].cooldown_until = Null

\* C33: with events handled one at a time, no event during a cooldown moves
\* cooldown_until later; with time advancing, every user in a cooldown (one that
\* ends within the time the run covers) reaches a state in which the cooldown
\* check reports not-in-cooldown; from then on a cooldown check reports
\* not-in-cooldown, an agree issues a challenge and a correct answer verifies
\* the user.
C33_CooldownEnds ==
    /\ [][\A u \in Users : CooldownNotMovedLater(u) /\ AfterCooldown(u)]_vars
    /\ \A u \in Users :
          (InCooldown(u) /\ users[u].cooldown_until <= StartTime + Horizon)
              ~> ~is_in_cooldown(users, u, now).in_cooldown

\* the cooldown of a user has ended: the agree that found it elapsed has reset
\* it and issued a challenge
C33_Witness ==
    \E u \in Users :
        /\ HasRow(u)
        /\ out.op = "agree"
        /\ out.user = u
        /\ out.result = "ShowChallenge"
        /\ out.expired
        /\ HasSession(u)
        /\ users[u].agreed_at = now
        /\ now >= StartTime + config.cooldown_seconds
        /\ ~is_in_cooldown(users, u, now).in_cooldown

\* a correct answer has verified a user at a time no cooldown entered in the run
\* can still last
C33_WitnessVerified ==
    \E u \in Users :
        /\ HasRow(u)
        /\ out.op = "captcha"
        /\ out.user = u
        /\ out.result = "ShowSuccess"
        /\ users[u].verified_at = now
        /\ users[u].agreed_at >= StartTime + config.cooldown_seconds

\* a user is in a cooldown that ends within the time the run covers
C33_WitnessInCooldown ==
    \E u \in Users :
        /\ InCooldown(u)
        /\ users[u].cooldown_until <= StartTime + Horizon

\* main() is inside the polling loop of main.py:128-200
InLoop == MainAt("while") \/ MainAt("start_polling") \/ MainAt("retry_wait")

\* main() has gone through the cleanup of main.py:202-214
ShutdownComplete == MainAt("done")

\* dp.start_polling is called at most max_retries + 1 times, the loop goes on only
\* while the retries counted are at most max_retries, and past the first step of
\* the cleanup db.close() has been called
BoundedRetries ==
    MainTask \in DOMAIN tasks =>
        /\ tasks[MainTask].started <= max_retries + 1
        /\ InLoop => tasks[MainTask].retry_count <= max_retries
        /\ (MainAt("session_close") \/ MainAt("done")) =>
               tasks[MainTask].db \in {"closed", "close_raised"}
        /\ MainAt("done") => tasks[MainTask].session \in {"closed", "close_raised"}

\* the retry counter is never reset and counts every retry, whatever the error;
\* it is past max_retries when the loop is left for that reason; a fatal API
\* error leaves the loop with nothing counted and no further call of
\* dp.start_polling; a retry wait during which shutdown_event is set leaves the
\* loop; and the loop is left for the cleanup only
SupervisionStep ==
    (MainTask \in DOMAIN tasks /\ MainTask \in DOMAIN tasks') =>
        LET main == tasks[MainTask]
            main_after == tasks'[MainTask]
        IN  /\ main_after.retry_count >= main.retry_count
            /\ main_after.retry_count <= main.retry_count + 1
            /\ main_after.started >= main.started
            /\ (main.pc = "start_polling" /\ main_after.pc = "retry_wait") =>
                   main_after.retry_count = main.retry_count + 1
            /\ out'.result = "MaxRetriesReached" =>
                   /\ main_after.retry_count = max_retries + 1
                   /\ main_after.pc = "db_close"
            /\ out'.result = "FatalApiError" =>
                   /\ main.pc = "start_polling"
                   /\ main_after.pc = "db_close"
                   /\ main_after.retry_count = main.retry_count
                   /\ main_after.started = main.started
            /\ (main.pc = "retry_wait" /\ main.shutdown_event) =>
                   main_after.pc = "db_close"
            /\ (InLoop /\ ~InLoop') => main_after.pc = "db_close"

C34_WitnessFatal ==
    /\ MainAt("db_close")
    /\ out.result = "FatalApiError"
    /\ tasks[MainTask].retry_count > 0
    /\ tasks[MainTask].started = tasks[MainTask].retry_count + 1

\* a shutdown signal during a retry wait has ended the loop
C34_WitnessShutdown ==
    /\ MainAt("db_close")
    /\ out.result = "ShutdownDuringRetryWait"
    /\ tasks[MainTask].shutdown_event
    /\ tasks[MainTask].retry_count > 0

=============================================================================
